---- MODULE Spec2Model ----
(***************************************************************************)
(* Verification model of n8n-nodes-sap-ai-core: the tool discovery and     *)
(* tool-calling loop of SapAiCoreLlm.execute, the logWrapper proxy, the    *)
(* schema simplifier and the curly-bracket escaping helper.                *)
(*                                                                         *)
(* The specifications share the module; each one drives its own group of   *)
(* variables and keeps the other groups at their idle value:               *)
(*   Spec        getConnectedTools + SapAiCoreLlm.execute (one item)       *)
(*   SpecWrap    logWrapper / callMethodAsync, two interleaved calls       *)
(*   SpecSchema  simplifySchemaForSapAiCore                                *)
(*   SpecEscape  escapeSingleCurlyBrackets                                 *)
(*   SpecRetry   n8nDefaultFailedAttemptHandler                            *)
(*   SpecExample generateSchemaFromExample                                 *)
(*   SpecEntry   the entry points up to the construction of the client     *)
(*   SpecItems   the loop of SapAiCoreLlm.execute over its input items     *)
(*   SpecConcurrent  invocations interleaved over the process-wide key     *)
(*   SpecTrace   N8nLlmTracing: the handlers of interleaved runs           *)
(*   SpecAttempt makeN8nLlmFailedAttemptHandler                            *)
(*   SpecOp      retryOperation                                            *)
(*   SpecSanitize  sanitizeSchema                                          *)
(*   SpecFallback  prepareFallbackToolDescription                          *)
(***************************************************************************)
EXTENDS Integers, Sequences, FiniteSets, TLC

VARIABLES
    escText,      \* escapeSingleCurlyBrackets: the string handed to the first call
    escHist,      \* results of the successive applications, oldest first
    schIn,        \* simplifySchemaForSapAiCore: the schema handed to the call
    schOut,       \* <<>> before the call, <<result>> after it
    category,     \* logWrapper: capability category of originalInstance
    hasAddInputData, \* logWrapper: 'addInputData' in executeFunctions
    runIndex,     \* host: next run index addInputData returns, per connection type
    trace,        \* sink events and delegate invocations / settlements, in order
    call,         \* per intercepted call: position, operation, locals and outcome
    raw,          \* execute: what getInputConnectionData(AiTool, 0) yields
    messages,     \* the messages array of the tool path (<<>> before it is created)
    finalResponse, \* response of the resubmission
    pc,           \* position of SapAiCoreLlm.execute in the processing of its item
    discovery,    \* outcome of getConnectedTools(this, true, true)
    tools,        \* the validated tool set
    toolErrors,   \* toolErrors array
    telemetry,    \* events handed to logAiEvent, in order
    bindCalls,    \* number of llm.bindTools calls
    submissions,  \* conversations submitted to the model, with the endpoint used
    response,     \* first response of the tool-bound endpoint
    k,            \* position of the for-of loop over response.tool_calls
    toolResults,  \* toolResults array
    invoked,      \* the tool.invoke calls made, in order, with how each one settled
    agentError,   \* where the tool path threw, and the message (at = "none": it did not)
    result,       \* result object of the item
    outcome,      \* how execute ended for the item
    faError,  \* n8nDefaultFailedAttemptHandler: the error handed to the handler
    faOutcome,   \* "none" before the call, then "throw" or "return"
    exIn,  \* generateSchemaFromExample: the parsed example (kind "invalid": the string does not parse)
    exFlag,  \* the allFieldsRequired argument
    exOut,   \* status "none" before the call, then the schema returned or "throw"
    epIn,  \* entry points: the entry point entered, its credentials, parameters and options
    epPc,  \* position in the steps of the entry point (0: not entered)
    envKey,  \* process.env.AICORE_SERVICE_KEY: "previous" until the entry point assigns it
    client,  \* <<>>, or the model parameters the SDK client was constructed with
    epRaised,  \* message of the configuration error the entry point raised ("": none)
    epOutcome,  \* how the entry point ended
    itItems,  \* execute over all items: number of input items
    itContinue,  \* continueOnFail()
    itI,  \* the loop variable i (items are numbered from 1)
    returnData,  \* returnData array
    execOutcome,   \* "running", then "returned" or "thrown"
    cInv,  \* concurrent invocations: per invocation its entry point, position and the key its client was built under
    cEnv,   \* AICORE_SERVICE_KEY: 0, or the invocation from whose credentials it was built
    trIn,  \* N8nLlmTracing: length of the prompts of each run, whether addInputData yields an index, the mapper
    trRun,  \* per runId: position of its handlers and their locals
    runsMap,  \* runsMap: the index stored per runId (-1: no entry)
    promptTokensEstimate,  \* the field promptTokensEstimate
    trHost,  \* host: the index addInputData yields next
    trEvents,   \* addInputData / addOutputData calls, in order
    atIn,  \* makeN8nLlmFailedAttemptHandler: the error, its retriesLeft and the custom handler
    atOut,   \* what the made handler did
    roMax,  \* retryOperation: twice the argument maxRetries (it may be a half)
    roAttempt,  \* the loop variable attempt
    roPc,  \* position in retryOperation
    roLog,  \* invocations, failures, delays and the success, in order
    lastError,   \* the local lastError
    saIn,  \* sanitizeSchema: the schema handed in
    saOut,   \* what sanitizeSchema returned (kind "none" before the call)
    fbIn,  \* prepareFallbackToolDescription: the properties and the required list of the schema
    fbOut   \* the parameter lines of the description (NotRendered before the call)

\* the variables of the specifications that follow the first four
laterVars == <<faError, faOutcome,
              exIn, exFlag, exOut,
              epIn, epPc, envKey, client, epRaised, epOutcome, itItems, itContinue, itI, returnData, execOutcome,
              cInv, cEnv,
              trIn, trRun, runsMap, promptTokensEstimate, trHost, trEvents,
              atIn, atOut,
              roMax, roAttempt, roPc, roLog, lastError,
              saIn, saOut,
              fbIn, fbOut>>
retryVars == <<faError, faOutcome>>
exampleVars == <<exIn, exFlag, exOut>>
entryVars == <<epIn, epPc, envKey, client, epRaised, epOutcome>>
itemVars == <<itItems, itContinue, itI, returnData, execOutcome>>
concurrentVars == <<cInv, cEnv>>
traceVars == <<trIn, trRun, runsMap, promptTokensEstimate, trHost, trEvents>>
attemptVars == <<atIn, atOut>>
opVars == <<roMax, roAttempt, roPc, roLog, lastError>>
sanitizeVars == <<saIn, saOut>>
fallbackVars == <<fbIn, fbOut>>
escVars == <<escText, escHist>>
schVars == <<schIn, schOut>>
wrapVars == <<category, hasAddInputData, runIndex, trace, call>>
otherThanWrap == <<escText, escHist, schIn, schOut, raw, messages, finalResponse, pc, discovery, tools, toolErrors,
                  telemetry, bindCalls, submissions, response, k, toolResults, invoked,
                  agentError, result, outcome, laterVars>>
otherThanExec == <<escText, escHist, schIn, schOut, category, hasAddInputData, runIndex, trace, call,
                  laterVars>>
execVars == <<raw, messages, finalResponse, pc, discovery, tools, toolErrors, telemetry, bindCalls, submissions,
              response, k, toolResults, invoked, agentError, result, outcome>>

firstVars == <<escVars, schVars, wrapVars, execVars>>
otherThanRetry == <<firstVars, exampleVars, entryVars, itemVars, concurrentVars, traceVars, attemptVars, opVars, sanitizeVars, fallbackVars>>
otherThanExample == <<firstVars, retryVars, entryVars, itemVars, concurrentVars, traceVars, attemptVars, opVars, sanitizeVars, fallbackVars>>
otherThanEntry == <<firstVars, retryVars, exampleVars, itemVars, concurrentVars, traceVars, attemptVars, opVars, sanitizeVars, fallbackVars>>
otherThanItems == <<firstVars, retryVars, exampleVars, entryVars, concurrentVars, traceVars, attemptVars, opVars, sanitizeVars, fallbackVars>>
otherThanConcurrent == <<firstVars, exampleVars, entryVars, itemVars, retryVars, traceVars, attemptVars, opVars, sanitizeVars, fallbackVars>>
otherThanTrace == <<firstVars, exampleVars, entryVars, itemVars, concurrentVars, retryVars, attemptVars, opVars, sanitizeVars, fallbackVars>>
otherThanAttempt == <<firstVars, exampleVars, entryVars, itemVars, concurrentVars, traceVars, retryVars, opVars, sanitizeVars, fallbackVars>>
otherThanOp == <<firstVars, exampleVars, entryVars, itemVars, concurrentVars, traceVars, attemptVars, retryVars, sanitizeVars, fallbackVars>>
otherThanSanitize == <<firstVars, exampleVars, entryVars, itemVars, concurrentVars, traceVars, attemptVars, opVars, retryVars, fallbackVars>>
otherThanFallback == <<firstVars, exampleVars, entryVars, itemVars, concurrentVars, traceVars, attemptVars, opVars, sanitizeVars, retryVars>>

(***************************************************************************)
(* escapeSingleCurlyBrackets (src/utils/helpers.ts)                        *)
(***************************************************************************)
\* longest input string of the escaping checks
MaxLen == 5
\* how many times the escape is applied in a row
MaxApply == 2

Open == "{"
Close == "}"
Other == "x"
Alphabet == {Open, Close, Other}

Texts == UNION {[1..n -> Alphabet] : n \in 0..MaxLen}

Rep(ch, m) == [j \in 1..m |-> ch]

\* the regex (?<!ch) ch{n} (?!ch) matches at position i of s
MatchAt(s, i, ch, n) ==
    /\ i + n - 1 <= Len(s)
    /\ \A j \in i..(i + n - 1) : s[j] = ch
    /\ (i = 1 \/ s[i - 1] # ch)
    /\ (i + n > Len(s) \/ s[i + n] # ch)

RECURSIVE ScanReplace(_, _, _, _, _)
ScanReplace(s, i, ch, n, m) ==
    IF i > Len(s) THEN <<>>
    ELSE IF MatchAt(s, i, ch, n)
         THEN Rep(ch, m) \o ScanReplace(s, i + n, ch, n, m)
         ELSE <<s[i]>> \o ScanReplace(s, i + 1, ch, n, m)

\* String.prototype.replace with a global regex: every match, left to right
ReplaceRuns(s, ch, n, m) == ScanReplace(s, 1, ch, n, m)

\* a variant of the scan whose single-brace pattern has lost its lookahead
RECURSIVE ScanNoLookahead(_, _, _, _, _)
ScanNoLookahead(s, i, ch, n, m) ==
    IF i > Len(s) THEN <<>>
    ELSE IF /\ i + n - 1 <= Len(s)
            /\ \A j \in i..(i + n - 1) : s[j] = ch
            /\ (i = 1 \/ s[i - 1] # ch)
         THEN Rep(ch, m) \o ScanNoLookahead(s, i + n, ch, n, m)
         ELSE <<s[i]>> \o ScanNoLookahead(s, i + 1, ch, n, m)

escapeSingleCurlyBrackets_NoLookahead(text) ==
    ScanNoLookahead(ScanNoLookahead(text, 1, Open, 1, 2), 1, Close, 1, 2)

escapeSingleCurlyBrackets(text) ==
    LET r1 == ReplaceRuns(text, Open, 3, 4)
        r2 == ReplaceRuns(r1, Close, 3, 4)
        r3 == ReplaceRuns(r2, Open, 1, 2)
    IN  ReplaceRuns(r3, Close, 1, 2)

\* one call of escapeSingleCurlyBrackets on the previous result
EscapeOnce ==
    /\ Len(escHist) < MaxApply
    /\ escHist' = Append(escHist,
            escapeSingleCurlyBrackets(IF escHist = <<>> THEN escText
                                      ELSE escHist[Len(escHist)]))
    /\ UNCHANGED <<escText, schVars, wrapVars, execVars, laterVars>>

EscNext == EscapeOnce

(***************************************************************************)
(* simplifySchemaForSapAiCore (src/utils/schemaParsing.ts)                 *)
(***************************************************************************)
\* nesting depth of the schema trees handed to the simplifier
SchemaDepth == 2

\* the keywords the function deletes from a node
DeletedKeywords == {"$schema", "$id", "definitions", "allOf", "anyOf", "oneOf", "not"}
\* the keywords the specification lists as unsupported by the endpoint
UnsupportedKeywords == DeletedKeywords \cup {"$ref"}

\* A JSON value in schema position.  kind "object" is a schema object whose own
\* keys are kw (beside properties / items / additionalProperties), props is the
\* ordered properties map, items and extra hold zero or one sub-schema
\* (extra: additionalProperties).  kind "falsy" / "truthy" is a non-object value.
Node(kind, kw, props, items, extra) ==
    [kind |-> kind, kw |-> kw, props |-> props, items |-> items, extra |-> extra]
Scalar(kind) == Node(kind, {}, <<>>, <<>>, <<>>)
Obj(kw) == Node("object", kw, <<>>, <<>>, <<>>)
\* the literal { type: 'string' }
StringSchema == Obj({"type"})

KeywordChoices == {{}, {"type"}} \cup {{w} : w \in UnsupportedKeywords}
PropertyNames == {"a"}

LeafSchemas == {Scalar("falsy"), Scalar("truthy")} \cup {Obj(kw) : kw \in KeywordChoices}

RECURSIVE SchemasUpTo(_)
SchemasUpTo(d) ==
    IF d = 0 THEN LeafSchemas
    ELSE LET sub == SchemasUpTo(d - 1)
         IN  LeafSchemas
             \cup {Node("object", kw, <<[name |-> n, schema |-> c]>>, <<>>, <<>>) :
                        kw \in KeywordChoices, n \in PropertyNames, c \in sub}
             \cup {Node("object", kw, <<>>, <<c>>, <<>>) : kw \in KeywordChoices, c \in sub}
             \cup {Node("object", kw, <<>>, <<>>, <<c>>) :
                        kw \in KeywordChoices, c \in sub \ {Scalar("falsy"), Scalar("truthy")}}

\* the seven delete statements
RemainingKeys(kw) == kw \ DeletedKeywords

RECURSIVE simplifySchemaForSapAiCore(_)
simplifySchemaForSapAiCore(schema) ==
    IF schema.kind # "object" THEN StringSchema
    ELSE [schema EXCEPT
            !.kw = RemainingKeys(schema.kw),
            !.props = [i \in 1..Len(schema.props) |->
                          [name |-> schema.props[i].name,
                           schema |-> simplifySchemaForSapAiCore(schema.props[i].schema)]],
            !.items = IF schema.items # <<>> /\ schema.items[1].kind # "falsy"
                      THEN <<simplifySchemaForSapAiCore(schema.items[1])>>
                      ELSE schema.items]

Simplify ==
    /\ schOut = <<>>
    /\ schOut' = <<simplifySchemaForSapAiCore(schIn)>>
    /\ UNCHANGED <<schIn, escVars, wrapVars, execVars, laterVars>>

SchNext == Simplify

(***************************************************************************)
(* logWrapper and callMethodAsync (src/unnamed/part_003)                   *)
(***************************************************************************)
\* number of intercepted calls that run interleaved
NumCalls == 2
Calls == 1..NumCalls

\* the capability categories the get trap tests for, and the property names it
\* intercepts for an instance of each
Categories == {"memory", "messageHistory", "retriever", "embeddings", "compressor",
               "textSplitter", "tool", "vectorStore"}
InterceptedOperations(cat) ==
    CASE cat = "memory" -> {"loadMemoryVariables", "saveContext"}
      [] cat = "messageHistory" -> {"getMessages", "addMessage"}
      [] cat = "retriever" -> {"getRelevantDocuments"}
      [] cat = "embeddings" -> {"embedDocuments", "embedQuery"}
      [] cat = "compressor" -> {"compressDocuments"}
      [] cat = "textSplitter" -> {"splitText"}
      [] cat = "tool" -> {"_call"}
      [] cat = "vectorStore" -> {"similaritySearch"}
Operations == UNION {InterceptedOperations(cat) : cat \in Categories}

\* a variant of the get trap that intercepts a catalogued name on every instance
Intercepts_AnyCategory(cat, prop) == prop \in Operations

\* the get trap returns a wrapper for prop: the category test of the instance and
\* the prop === '...' test both hold
Intercepts(cat, prop) == prop \in InterceptedOperations(cat)

\* the property names read from the proxy of an instance of cat: its intercepted
\* operations, invoke (in no catalogue) and one name of another category
ForeignOperation(cat) == IF cat = "tool" THEN "splitText" ELSE "_call"
Props(cat) == InterceptedOperations(cat) \cup {"invoke", ForeignOperation(cat)}
AllProps == UNION {Props(cat) : cat \in Categories}

\* the connectionType each wrapper assigns
ConnectionType(op) ==
    CASE op \in {"loadMemoryVariables", "saveContext", "getMessages", "addMessage"} -> "ai_memory"
      [] op = "getRelevantDocuments" -> "ai_retriever"
      [] op \in {"embedDocuments", "embedQuery"} -> "ai_embedding"
      [] op = "compressDocuments" -> "ai-document-compressor"
      [] op = "splitText" -> "ai_textSplitter"
      [] op = "_call" -> "ai_tool"
      [] op = "similaritySearch" -> "ai_vectorStore"
ConnectionTypes == {ConnectionType(op) : op \in Operations}

\* JavaScript values a delegate may resolve to, by kind
Undefined == "undefined"
Values == {Undefined, "str", "obj"}
\* JSON.stringify: undefined stays undefined, a string gets quoted, an object is serialized
JsonStringify(v) ==
    CASE v = Undefined -> Undefined
      [] v = "str" -> "json:str"
      [] OTHER -> "json:obj"

\* messages of the errors a delegate may throw (the second one is the empty message)
ErrorMessages == {"boom", ""}
GenericMessage == "Error on node"

RawError(msg) ==
    [cls |-> "Error", message |-> msg, description |-> Undefined, functionality |-> Undefined]
SinkError == RawError("sink failed")
HistoryError == RawError("history failed")
TypeError == RawError("TypeError")
NoError == RawError("none")
\* new NodeOperationError(node, e, options)
NodeOperationError(msg, functionality) ==
    [cls |-> "NodeOperationError", message |-> msg, description |-> Undefined,
     functionality |-> functionality]

\* this-argument of method.apply in callMethodAsync: parameters.target || null
ApplyReceiver(op) ==
    IF op \in {"embedDocuments", "embedQuery"} THEN "target" ELSE "null"

\* does the wrapper of op call logAiEvent after a successful delegate call
LogsAiEvent(op) == op \notin {"loadMemoryVariables", "saveContext"}
\* getMessages records its output before logAiEvent, the others after it
LogsBeforeOutput(op) == LogsAiEvent(op) /\ op # "getMessages"

\* a variant whose wrappers all forget their return statement
WrapperReturn_NoReturn(op, resp) == Undefined

\* value the async wrapper resolves to, given the delegate's response
WrapperReturn(op, resp) ==
    CASE op = "addMessage" -> Undefined
      [] op = "_call" -> IF resp = "str" THEN resp ELSE JsonStringify(resp)
      [] OTHER -> resp

\* a variant that records under the host's latest run index of the connection
OutputIndex_Latest(c) == runIndex[ConnectionType(call[c].op)] - 1

\* index under which the output or error event is recorded: the local const index
OutputIndex(c) == call[c].index

Event(kind, c, idx, payload) ==
    [kind |-> kind, call |-> c, conn |-> ConnectionType(call[c].op), index |-> idx,
     payload |-> payload]

NoRunIndex == [t \in ConnectionTypes |-> 0]

IdleCall ==
    [pc |-> "idle", op |-> "none", got |-> "none", index |-> -1, settled |-> "none",
     value |-> Undefined, ret |-> Undefined, thrown |-> NoError, aiEvents |-> 0]

\* calls are numbered in the order in which they are made: c is the next one
IsNextCall(c) == call[c].pc = "idle" /\ \A d \in Calls : d < c => call[d].pc # "idle"

\* the proxy's get trap hands out the wrapper of op and the caller invokes it:
\* addInputData, then callMethodAsync up to method.apply (logging branch), or
\* the direct target[prop].call(target, ...) of the branch without logging
Enter(c, op, sinkOk) ==
    /\ IsNextCall(c)
    /\ op \in Props(category) /\ Intercepts(category, op)
    /\ LET conn == ConnectionType(op) IN
       IF ~hasAddInputData
       THEN /\ call' = [call EXCEPT ![c].pc = "direct", ![c].op = op, ![c].got = "wrapper"]
            /\ trace' = Append(trace, [kind |-> "invoke", call |-> c, conn |-> conn,
                                        index |-> -1, payload |-> "target"])
            /\ UNCHANGED runIndex
       ELSE IF ~sinkOk
       THEN /\ call' = [call EXCEPT ![c].pc = "done", ![c].op = op, ![c].got = "wrapper",
                                     ![c].thrown = SinkError]
            /\ UNCHANGED <<trace, runIndex>>
       ELSE /\ call' = [call EXCEPT ![c].pc = "inflight", ![c].op = op, ![c].got = "wrapper",
                                     ![c].index = runIndex[conn]]
            /\ runIndex' = [runIndex EXCEPT ![conn] = @ + 1]
            /\ trace' = trace \o
                   <<[kind |-> "input", call |-> c, conn |-> conn,
                      index |-> runIndex[conn], payload |-> op],
                     [kind |-> "invoke", call |-> c, conn |-> conn,
                      index |-> runIndex[conn], payload |-> ApplyReceiver(op)]>>
    /\ UNCHANGED <<category, hasAddInputData>>
    /\ UNCHANGED otherThanWrap

\* the awaited delegate resolves to v: the rest of the wrapper runs
DelegateReturns(c, v, sinkOk) ==
    /\ call[c].pc = "inflight"
    /\ LET op == call[c].op
           settle == Event("settle", c, call[c].index, "ok")
           base == [call EXCEPT ![c].settled = "ok", ![c].value = v]
       IN
       IF op = "saveContext"
       THEN /\ call' = [base EXCEPT ![c].pc = "chatHistory"]
            /\ trace' = Append(trace, settle)
       ELSE IF op = "getRelevantDocuments" /\ v = Undefined
       THEN \* response[0] on undefined
            /\ call' = [base EXCEPT ![c].pc = "done", ![c].thrown = TypeError]
            /\ trace' = Append(trace, settle)
       ELSE IF ~sinkOk
       THEN /\ call' = [base EXCEPT ![c].pc = "done", ![c].thrown = SinkError,
                                     ![c].aiEvents = IF LogsBeforeOutput(op) THEN 1 ELSE 0]
            /\ trace' = Append(trace, settle)
       ELSE /\ call' = [base EXCEPT ![c].pc = "done", ![c].ret = WrapperReturn(op, v),
                                     ![c].aiEvents = IF LogsAiEvent(op) THEN 1 ELSE 0]
            /\ trace' = trace \o <<settle, Event("output", c, OutputIndex(c), op)>>
    /\ UNCHANGED <<category, hasAddInputData, runIndex>>
    /\ UNCHANGED otherThanWrap

\* the awaited delegate rejects with an Error of message msg: the catch block
\* of callMethodAsync
DelegateThrows(c, msg, sinkOk) ==
    /\ call[c].pc = "inflight"
    /\ LET error == NodeOperationError(msg, "configuration-node")
           settle == Event("settle", c, call[c].index, "err")
           base == [call EXCEPT ![c].settled = "err", ![c].pc = "done"]
       IN
       IF ~sinkOk
       THEN /\ call' = [base EXCEPT ![c].thrown = SinkError]
            /\ trace' = Append(trace, settle)
       ELSE /\ trace' = trace \o <<settle, Event("error", c, OutputIndex(c), msg)>>
            /\ call' = [base EXCEPT ![c].thrown =
                            IF error.message # ""
                            THEN [error EXCEPT !.description = error.message]
                            ELSE NodeOperationError(GenericMessage, Undefined)]
    /\ UNCHANGED <<category, hasAddInputData, runIndex>>
    /\ UNCHANGED otherThanWrap

\* saveContext: await target.chatHistory.getMessages(), then addOutputData
ChatHistoryRead(c, readOk, sinkOk) ==
    /\ call[c].pc = "chatHistory"
    /\ IF ~readOk
       THEN /\ call' = [call EXCEPT ![c].pc = "done", ![c].thrown = HistoryError]
            /\ UNCHANGED trace
       ELSE IF ~sinkOk
       THEN /\ call' = [call EXCEPT ![c].pc = "done", ![c].thrown = SinkError]
            /\ UNCHANGED trace
       ELSE /\ call' = [call EXCEPT ![c].pc = "done",
                                     ![c].ret = WrapperReturn(call[c].op, call[c].value)]
            /\ trace' = Append(trace, Event("output", c, OutputIndex(c), call[c].op))
    /\ UNCHANGED <<category, hasAddInputData, runIndex>>
    /\ UNCHANGED otherThanWrap

\* branch without logging: the direct call resolves to v
DirectReturns(c, v) ==
    /\ call[c].pc = "direct"
    /\ call' = [call EXCEPT ![c].pc = "done", ![c].settled = "ok", ![c].value = v,
                             ![c].ret = WrapperReturn(call[c].op, v)]
    /\ trace' = Append(trace, Event("settle", c, -1, "ok"))
    /\ UNCHANGED <<category, hasAddInputData, runIndex>>
    /\ UNCHANGED otherThanWrap

\* branch without logging: the direct call rejects, nothing catches it
DirectThrows(c, msg) ==
    /\ call[c].pc = "direct"
    /\ call' = [call EXCEPT ![c].pc = "done", ![c].settled = "err",
                             ![c].thrown = RawError(msg)]
    /\ trace' = Append(trace, Event("settle", c, -1, "err"))
    /\ UNCHANGED <<category, hasAddInputData, runIndex>>
    /\ UNCHANGED otherThanWrap

\* the get trap falls through to return target[prop]: the caller gets the
\* member of the wrapped instance and uses it; no code of the wrapper runs
PassThrough(c, prop, ok, v, msg) ==
    /\ IsNextCall(c)
    /\ prop \in Props(category) /\ ~Intercepts(category, prop)
    /\ call' = [call EXCEPT ![c].pc = "done", ![c].op = prop, ![c].got = "member",
                             ![c].settled = IF ok THEN "ok" ELSE "err",
                             ![c].value = IF ok THEN v ELSE Undefined,
                             ![c].ret = IF ok THEN v ELSE Undefined,
                             ![c].thrown = IF ok THEN NoError ELSE RawError(msg)]
    /\ UNCHANGED <<category, hasAddInputData, runIndex, trace>>
    /\ UNCHANGED otherThanWrap

WrapNext ==
    \/ \E c \in Calls, op \in AllProps, sinkOk \in BOOLEAN : Enter(c, op, sinkOk)
    \/ \E c \in Calls, prop \in AllProps, ok \in BOOLEAN, v \in Values, msg \in ErrorMessages :
           PassThrough(c, prop, ok, v, msg)
    \/ \E c \in Calls, v \in Values, sinkOk \in BOOLEAN : DelegateReturns(c, v, sinkOk)
    \/ \E c \in Calls, msg \in ErrorMessages, sinkOk \in BOOLEAN :
           DelegateThrows(c, msg, sinkOk)
    \/ \E c \in Calls, readOk \in BOOLEAN, sinkOk \in BOOLEAN :
           ChatHistoryRead(c, readOk, sinkOk)
    \/ \E c \in Calls, v \in Values : DirectReturns(c, v)
    \/ \E c \in Calls, msg \in ErrorMessages : DirectThrows(c, msg)

(***************************************************************************)
(* getConnectedTools (src/utils/helpers.ts)                                *)
(***************************************************************************)
\* most entries of the array of connected tools
MaxTools == 2

\* A connected value.  id tells the candidates apart (object identity); kind is
\* "null" for null / undefined and "object" for an object; nameT is typeof name;
\* func, call and ucall (_call) are "absent" or "function"; n8n: instanceof N8nTool.
Tool(id, kind, nameT, name, func, cl, ucall, n8n) ==
    [id |-> id, kind |-> kind, nameT |-> nameT, name |-> name, func |-> func,
     call |-> cl, ucall |-> ucall, n8n |-> n8n,
     description |-> IF kind = "object" THEN <<Open, Other, Close>> ELSE <<>>]

NullTool == Tool("t1", "null", "undefined", "", "absent", "absent", "absent", FALSE)
ToolA == Tool("t4", "object", "string", "a", "function", "absent", "absent", FALSE)
ToolBNoCallable == Tool("t7", "object", "string", "b", "absent", "absent", "absent", FALSE)

ToolPool ==
    { NullTool,
      Tool("t2", "object", "string", "", "function", "absent", "absent", FALSE),
      Tool("t3", "object", "number", "7", "function", "absent", "absent", FALSE),
      ToolA,
      Tool("t5", "object", "string", "a", "absent", "absent", "function", FALSE),
      Tool("t6", "object", "string", "b", "absent", "function", "absent", FALSE),
      ToolBNoCallable,
      Tool("t8", "object", "string", "c", "function", "function", "function", TRUE) }

\* a Toolkit whose getTools() yields two tools
ToolkitAB == [toolkit |-> TRUE, tools |-> <<ToolA, ToolBNoCallable>>]
Single(t) == [toolkit |-> FALSE, tools |-> <<t>>]
ConnectedItems == {Single(t) : t \in ToolPool} \cup {ToolkitAB}

RawInputs ==
    {[shape |-> "null", items |-> <<>>], [shape |-> "throws", items |-> <<>>]}
    \cup {[shape |-> "single", items |-> <<i>>] : i \in ConnectedItems}
    \cup {[shape |-> "array", items |-> s] :
              s \in UNION {[1..n -> ConnectedItems] : n \in 0..MaxTools}}

\* toolsArray.flatMap: a Toolkit is replaced by its tools, one level
RECURSIVE FlatMap(_, _)
FlatMap(items, i) ==
    IF i > Len(items) THEN <<>> ELSE items[i].tools \o FlatMap(items, i + 1)

AiEvent(event, names, error) == [event |-> event, names |-> names, error |-> error]

DuplicateNameText == "multiple tools with the same name"
NodeOpError(text, name) == [cls |-> "NodeOperationError", text |-> text, name |-> name]
NoDiscoveryError == [cls |-> "none", text |-> "", name |-> ""]

\* N8nTool.asDynamicTool: a DynamicTool with the same name and the bound func
asDynamicTool(tool) ==
    [tool EXCEPT !.n8n = FALSE, !.func = "function", !.call = "function",
                 !.ucall = "function"]

\* a variant that drops the later of two equally named tools instead of throwing
ToolCheck_DropDuplicate(tool, seenNames) ==
    IF tool.kind # "object" THEN "skip"
    ELSE IF tool.name = "" \/ tool.nameT # "string" THEN "skip"
    ELSE IF tool.name \in seenNames THEN "skip"
    ELSE "keep"

\* a variant without the seenNames test: an equally named tool is kept
ToolCheck_NoDuplicateCheck(tool, seenNames) ==
    IF tool.kind # "object" THEN "skip"
    ELSE IF tool.name = "" \/ tool.nameT # "string" THEN "skip"
    ELSE "keep"

\* the checks made on one candidate inside the loop
ToolCheck(tool, seenNames) ==
    IF tool.kind # "object" THEN "skip"
    ELSE IF tool.name = "" \/ tool.nameT # "string" THEN "skip"
    ELSE IF tool.name \in seenNames THEN "duplicate"
    ELSE "keep"

\* what is pushed to finalTools for a kept candidate
Prepared(tool, convertStructuredTool, escapeCurlyBrackets) ==
    LET t == IF escapeCurlyBrackets /\ tool.description # <<>>
             THEN [tool EXCEPT !.description = escapeSingleCurlyBrackets(tool.description)]
             ELSE tool
    IN  IF convertStructuredTool /\ t.n8n THEN asDynamicTool(t) ELSE t

Names(ts) == [i \in 1..Len(ts) |-> ts[i].name]

\* the for-of loop over connectedTools, from candidate i on
RECURSIVE ToolLoop(_, _, _, _, _, _)
ToolLoop(cands, i, seenNames, finalTools, convert, escape) ==
    IF i > Len(cands)
    THEN [status |-> "ok", tools |-> finalTools, error |-> NoDiscoveryError,
          events |-> <<AiEvent("tools-connected", Names(finalTools), "")>>]
    ELSE LET check == ToolCheck(cands[i], seenNames) IN
         CASE check = "skip" ->
                ToolLoop(cands, i + 1, seenNames, finalTools, convert, escape)
           [] check = "duplicate" ->
                \* thrown in the loop, logged and rethrown by both catch blocks
                [status |-> "throw", tools |-> <<>>,
                 error |-> NodeOpError(DuplicateNameText, cands[i].name),
                 events |-> <<AiEvent("tool-processing-error", <<cands[i].name>>,
                                      DuplicateNameText),
                              AiEvent("tool-connection-error", <<>>, DuplicateNameText)>>]
           [] OTHER ->
                ToolLoop(cands, i + 1, seenNames \cup {cands[i].name},
                         Append(finalTools, Prepared(cands[i], convert, escape)),
                         convert, escape)

getConnectedTools(rawData, enforceUniqueNames, convertStructuredTool, escapeCurlyBrackets) ==
    CASE rawData.shape = "throws" ->
           [status |-> "throw", tools |-> <<>>,
            error |-> NodeOpError("Failed to get connected tools", ""),
            events |-> <<AiEvent("tool-connection-error", <<>>, "connection failed")>>]
      [] rawData.shape = "null" ->
           [status |-> "ok", tools |-> <<>>, error |-> NoDiscoveryError, events |-> <<>>]
      [] OTHER ->
           LET connectedTools == FlatMap(rawData.items, 1) IN
           IF ~enforceUniqueNames
           THEN [status |-> "ok", tools |-> connectedTools, error |-> NoDiscoveryError,
                 events |-> <<>>]
           ELSE ToolLoop(connectedTools, 1, {}, <<>>, convertStructuredTool,
                         escapeCurlyBrackets)

(***************************************************************************)
(* SapAiCoreLlm.execute (src/credentials/SapAiCoreApi.credentials.ts),     *)
(* the processing of one input item                                        *)
(***************************************************************************)
\* most tool-call directives in one model response
MaxCalls == 2

\* names a directive of the model may carry ("z" names no connected tool)
DirectiveNames == {"a", "b", "z"}
\* messages of the errors bindTools and the model submissions may throw
ModelErrorMessages == {"timeout", "401 Unauthorized"}
ToolOutput == "obj"
\* values of the maxIterations option (default 10, minValue 1)
MaxIterationsValues == {1, 10}

Msg(role, content, id, calls) ==
    [role |-> role, content |-> content, tool_call_id |-> id, tool_calls |-> calls]
BaseMessages ==
    <<Msg("system", <<"systemMessage">>, 0, <<>>), Msg("user", <<"userMessage">>, 0, <<>>)>>

\* the tool_calls arrays a response may carry: ids are the positions
ToolCallLists ==
    UNION {{[i \in 1..n |-> [id |-> i, name |-> f[i], args |-> "args"]] :
                f \in [1..n -> DirectiveNames]} : n \in 0..MaxCalls}
\* the tool_calls arrays the response of the resubmission may carry
FinalToolCallLists == {<<>>, <<[id |-> 1, name |-> "a", args |-> "args"]>>}

NoResult ==
    [output |-> "none", intermediateSteps |-> <<>>, toolsUsed |-> 0,
     executionType |-> "none", error |-> <<>>]
Running == [kind |-> "running", error |-> ""]
NoRaw == [shape |-> "null", items |-> <<>>]
NoDiscovery == [status |-> "none", tools |-> <<>>, error |-> NoDiscoveryError]
NoResponse == [content |-> "none", tool_calls |-> <<>>]
NoAgentError == [at |-> "none", msg |-> ""]

\* a variant of the filter that has lost the check of the callable members
ToolPasses_NoCallableCheck(tool) ==
    tool.kind = "object" /\ ~(tool.name = "" \/ tool.nameT = "undefined")

\* the predicate of tools.filter: the tool, its name and one of func, call, _call are truthy
ToolPasses(tool) ==
    /\ tool.kind = "object"
    /\ ~(tool.name = "" \/ tool.nameT = "undefined")
    /\ ~(tool.func = "absent" /\ tool.call = "absent" /\ tool.ucall = "absent")

FilterError(tool) ==
    IF tool.kind # "object" THEN <<"Found null/undefined tool", "">>
    ELSE IF tool.name = "" \/ tool.nameT = "undefined" THEN <<"Found tool without name", "">>
    ELSE <<"has no callable function", tool.name>>

RECURSIVE FilterErrors(_, _)
FilterErrors(ts, i) ==
    IF i > Len(ts) THEN <<>>
    ELSE (IF ToolPasses(ts[i]) THEN <<>> ELSE <<FilterError(ts[i])>>) \o FilterErrors(ts, i + 1)

\* a variant of the lookup that falls back to the first tool of the set
FindTool_FirstTool(ts, name) ==
    IF \E i \in 1..Len(ts) : ts[i].name = name
    THEN CHOOSE i \in 1..Len(ts) :
             ts[i].name = name /\ \A j \in 1..(i - 1) : ts[j].name # name
    ELSE 1

\* tools.find(t => t.name === name): position of the first match, 0 if none
FindTool(ts, name) ==
    IF \E i \in 1..Len(ts) : ts[i].name = name
    THEN CHOOSE i \in 1..Len(ts) :
             ts[i].name = name /\ \A j \in 1..(i - 1) : ts[j].name # name
    ELSE 0

\* content of the tool-role message of one result: tr.error ? `Error: ...` : JSON.stringify(tr.result)
ToolMessageContent(tr) ==
    IF tr.hasError /\ tr.error # "" THEN <<"Error: ", tr.error>>
    ELSE <<JsonStringify(tr.result)>>

\* a variant that rebuilds the conversation from the user message only
finalMessages_DropsSystem ==
    Tail(messages)
    \o <<Msg("assistant", <<response.content>>, 0, response.tool_calls)>>
    \o [i \in 1..Len(toolResults) |->
            Msg("tool", ToolMessageContent(toolResults[i]), toolResults[i].tool_call_id, <<>>)]

finalMessages ==
    messages
    \o <<Msg("assistant", <<response.content>>, 0, response.tool_calls)>>
    \o [i \in 1..Len(toolResults) |->
            Msg("tool", ToolMessageContent(toolResults[i]), toolResults[i].tool_call_id, <<>>)]

\* message of a failed import('@sap-ai-sdk/langchain')
ModuleNotFoundMessage == "Cannot find module '@sap-ai-sdk/langchain'"
IsModuleMessage(msg) == msg = ModuleNotFoundMessage
IsAuthMessage(msg) == msg = "401 Unauthorized"

\* the catch block around the item: what leaves execute for an error of message msg
OuterCatch(msg, continueOnFail) ==
    IF IsModuleMessage(msg)
    THEN [kind |-> "thrown", error |-> "SAP AI SDK LangChain package is required"]
    ELSE IF IsAuthMessage(msg)
    THEN [kind |-> "thrown", error |-> "SAP AI Core authentication failed"]
    ELSE IF continueOnFail THEN [kind |-> "error_entry", error |-> msg]
    ELSE [kind |-> "thrown", error |-> msg]

\* a variant of the fallback result that keeps the size of the tool set
FallbackResult_KeepsTools(content, errorMsg) ==
    [output |-> content, intermediateSteps |-> <<>>, toolsUsed |-> Len(tools),
     executionType |-> "direct_llm_fallback",
     error |-> <<"Tool execution failed: ", errorMsg>>]

FallbackResult(content, errorMsg) ==
    [output |-> content, intermediateSteps |-> <<>>, toolsUsed |-> 0,
     executionType |-> "direct_llm_fallback",
     error |-> <<"Tool execution failed: ", errorMsg>>]

\* a variant of the tool-less result that reports the number of connected candidates
DirectResult_CountsCandidates(content) ==
    [output |-> content, intermediateSteps |-> <<>>,
     toolsUsed |-> Len(FlatMap(raw.items, 1)),
     executionType |-> "sap_ai_core_direct", error |-> <<>>]

DirectResult(content) ==
    [output |-> content, intermediateSteps |-> <<>>, toolsUsed |-> 0,
     executionType |-> "sap_ai_core_direct", error |-> <<>>]

\* a variant that returns the content of the first response as output
WithToolsResult_FirstContent(content) ==
    [output |-> response.content, intermediateSteps |-> toolResults, toolsUsed |-> Len(tools),
     executionType |-> "sap_ai_core_with_tools", error |-> <<>>]

\* the result built from the response of the resubmission
WithToolsResult(content) ==
    [output |-> content, intermediateSteps |-> toolResults, toolsUsed |-> Len(tools),
     executionType |-> "sap_ai_core_with_tools", error |-> <<>>]

\* the item ends in the outer catch block
Caught(msg, continueOnFail) ==
    /\ pc' = "end"
    /\ outcome' = OuterCatch(msg, continueOnFail)

\* the item ends normally with result r
Returns(r) ==
    /\ pc' = "end"
    /\ result' = r
    /\ outcome' = [kind |-> "returned", error |-> ""]

\* the catch (agentError) block up to its await: the direct submission
EnterFallback(at, msg) ==
    /\ agentError' = [at |-> at, msg |-> msg]
    /\ toolErrors' = Append(toolErrors, <<"SAP AI Core tool execution error", msg>>)
    /\ submissions' = Append(submissions, [endpoint |-> "unbound", messages |-> BaseMessages])
    /\ pc' = "awaitFallback"

\* parameters (options.maxIterations among them: read with the options, used
\* nowhere), the userMessage check, the credentials check, the client
Start(userMessageOk, credentialsOk, continueOnFail, maxIterations) ==
    /\ pc = "start"
    /\ IF ~userMessageOk THEN Caught("User message is required", continueOnFail)
       ELSE IF ~credentialsOk
       THEN Caught("Incomplete SAP AI Core credentials", continueOnFail)
       ELSE pc' = "getTools" /\ UNCHANGED outcome
    /\ UNCHANGED <<raw, discovery, tools, toolErrors, telemetry, bindCalls, submissions,
                   response, k, toolResults, invoked, agentError, result>>
    /\ UNCHANGED <<messages, finalResponse>>
    /\ UNCHANGED otherThanExec

\* getConnectedTools(this, true, true), its catch block, and tools.filter
GetTools ==
    /\ pc = "getTools"
    /\ LET d == getConnectedTools(raw, TRUE, TRUE, FALSE)
           kept == IF d.status = "ok" THEN SelectSeq(d.tools, ToolPasses) ELSE <<>>
       IN  /\ discovery' = [status |-> d.status, tools |-> d.tools, error |-> d.error]
           /\ telemetry' = telemetry \o d.events
           /\ tools' = kept
           /\ toolErrors' =
                 IF d.status = "ok" THEN FilterErrors(d.tools, 1)
                 ELSE <<<<"Tool loading error", d.error.text>>>>
           /\ pc' = IF kept # <<>> THEN "bind" ELSE "direct"
    /\ UNCHANGED <<raw, bindCalls, submissions, response, k, toolResults, invoked,
                   agentError, result, outcome>>
    /\ UNCHANGED <<messages, finalResponse>>
    /\ UNCHANGED otherThanExec

\* llm.bindTools(tools) and, when it returns, the first modelWithTools.invoke
Bind(ok, msg) ==
    /\ pc = "bind"
    /\ bindCalls' = bindCalls + 1
    /\ IF ok
       THEN /\ messages' = BaseMessages
            /\ submissions' = Append(submissions,
                                     [endpoint |-> "bound", messages |-> BaseMessages])
            /\ pc' = "awaitFirst"
            /\ UNCHANGED <<agentError, toolErrors>>
       ELSE EnterFallback("bindTools", msg) /\ UNCHANGED messages
    /\ UNCHANGED <<raw, discovery, tools, telemetry, response, k, toolResults, invoked,
                   result, outcome>>
    /\ UNCHANGED finalResponse
    /\ UNCHANGED otherThanExec

\* the first submission settles
FirstResponse(ok, calls, msg) ==
    /\ pc = "awaitFirst"
    /\ IF ~ok
       THEN /\ EnterFallback("invoke", msg)
            /\ UNCHANGED <<response, k, result, outcome>>
       ELSE /\ response' = [content |-> "answer1", tool_calls |-> calls]
            /\ UNCHANGED <<agentError, toolErrors, submissions>>
            /\ IF calls = <<>>
               THEN /\ Returns([output |-> "answer1", intermediateSteps |-> <<>>,
                                toolsUsed |-> Len(tools),
                                executionType |-> "sap_ai_core_direct_response",
                                error |-> <<>>])
                    /\ UNCHANGED k
               ELSE /\ k' = 1
                    /\ pc' = "loop"
                    /\ UNCHANGED <<result, outcome>>
    /\ UNCHANGED <<raw, discovery, tools, telemetry, bindCalls, toolResults, invoked>>
    /\ UNCHANGED <<messages, finalResponse>>
    /\ UNCHANGED otherThanExec

\* a directive whose name matches no tool: if (tool) is false
ToolSkip ==
    /\ pc = "loop" /\ k <= Len(response.tool_calls)
    /\ FindTool(tools, response.tool_calls[k].name) = 0
    /\ k' = k + 1
    /\ UNCHANGED <<raw, pc, discovery, tools, toolErrors, telemetry, bindCalls, submissions,
                   response, toolResults, invoked, agentError, result, outcome>>
    /\ UNCHANGED <<messages, finalResponse>>
    /\ UNCHANGED otherThanExec

\* tool.invoke(toolCall.args) is called and awaited
ToolInvoke ==
    /\ pc = "loop" /\ k <= Len(response.tool_calls)
    /\ FindTool(tools, response.tool_calls[k].name) # 0
    /\ invoked' = Append(invoked, [id |-> response.tool_calls[k].id,
                                    name |-> response.tool_calls[k].name,
                                    state |-> "pending"])
    /\ pc' = "awaitTool"
    /\ UNCHANGED <<raw, discovery, tools, toolErrors, telemetry, bindCalls, submissions,
                   response, k, toolResults, agentError, result, outcome>>
    /\ UNCHANGED <<messages, finalResponse>>
    /\ UNCHANGED otherThanExec

\* a variant in which a throwing tool ends the loop over the directives
NextDirective_AbortOnError(ok) == IF ok THEN k + 1 ELSE Len(response.tool_calls) + 1

\* the loop goes on with the next directive whether the tool returned or threw
NextDirective(ok) == k + 1

\* a variant of the entry that does not carry the id of its directive
ResultEntry_NoCallId(toolCall, ok, msg) ==
    [tool_call_id |-> 0, tool_name |-> toolCall.name, hasError |-> ~ok,
     error |-> IF ok THEN "" ELSE msg, result |-> IF ok THEN ToolOutput ELSE Undefined]

\* the object pushed for a directive: { tool_call_id, tool_name, result } when the
\* invocation returned, { tool_call_id, tool_name, error } when it threw
ResultEntry(toolCall, ok, msg) ==
    [tool_call_id |-> toolCall.id, tool_name |-> toolCall.name, hasError |-> ~ok,
     error |-> IF ok THEN "" ELSE msg, result |-> IF ok THEN ToolOutput ELSE Undefined]

\* a variant that puts the newest entry first
PushResult_Unshift(results, entry) == <<entry>> \o results

\* toolResults.push(entry)
PushResult(results, entry) == Append(results, entry)

\* the awaited invocation returns or throws: one entry is pushed to toolResults
ToolSettles(ok, msg) ==
    /\ pc = "awaitTool"
    /\ toolResults' = PushResult(toolResults, ResultEntry(response.tool_calls[k], ok, msg))
    /\ invoked' = [invoked EXCEPT ![Len(invoked)].state = IF ok THEN "returned" ELSE "threw"]
    /\ k' = NextDirective(ok)
    /\ pc' = "loop"
    /\ UNCHANGED <<raw, discovery, tools, toolErrors, telemetry, bindCalls, submissions,
                   response, agentError, result, outcome>>
    /\ UNCHANGED <<messages, finalResponse>>
    /\ UNCHANGED otherThanExec

\* after the loop: finalMessages is built and submitted to the bound endpoint
Resubmit ==
    /\ pc = "loop" /\ k > Len(response.tool_calls)
    /\ submissions' = Append(submissions, [endpoint |-> "bound", messages |-> finalMessages])
    /\ pc' = "awaitFinal"
    /\ UNCHANGED <<raw, discovery, tools, toolErrors, telemetry, bindCalls, response, k,
                   toolResults, invoked, agentError, result, outcome>>
    /\ UNCHANGED <<messages, finalResponse>>
    /\ UNCHANGED otherThanExec

\* the second submission settles
FinalResponse(ok, calls, msg) ==
    /\ pc = "awaitFinal"
    /\ IF ok
       THEN /\ finalResponse' = [content |-> "answer2", tool_calls |-> calls]
            /\ Returns(WithToolsResult("answer2"))
            /\ UNCHANGED <<agentError, toolErrors, submissions>>
       ELSE /\ EnterFallback("resubmit", msg)
            /\ UNCHANGED <<result, outcome, finalResponse>>
    /\ UNCHANGED <<raw, discovery, tools, telemetry, bindCalls, response, k, toolResults,
                   invoked>>
    /\ UNCHANGED messages
    /\ UNCHANGED otherThanExec

\* the direct submission of the fallback settles
FallbackResponse(ok, msg, continueOnFail) ==
    /\ pc = "awaitFallback"
    /\ IF ok
       THEN Returns(FallbackResult("answer0", agentError.msg))
       ELSE Caught(msg, continueOnFail) /\ UNCHANGED result
    /\ UNCHANGED <<raw, discovery, tools, toolErrors, telemetry, bindCalls, submissions,
                   response, k, toolResults, invoked, agentError>>
    /\ UNCHANGED <<messages, finalResponse>>
    /\ UNCHANGED otherThanExec

\* no tools: llm.invoke(messages) on the unbound client
Direct ==
    /\ pc = "direct"
    /\ submissions' = Append(submissions, [endpoint |-> "unbound", messages |-> BaseMessages])
    /\ pc' = "awaitDirect"
    /\ UNCHANGED <<raw, discovery, tools, toolErrors, telemetry, bindCalls, response, k,
                   toolResults, invoked, agentError, result, outcome>>
    /\ UNCHANGED <<messages, finalResponse>>
    /\ UNCHANGED otherThanExec

\* the tool-less submission settles
DirectResponse(ok, msg, continueOnFail) ==
    /\ pc = "awaitDirect"
    /\ IF ok
       THEN Returns(DirectResult("answer0"))
       ELSE Caught(msg, continueOnFail) /\ UNCHANGED result
    /\ UNCHANGED <<raw, discovery, tools, toolErrors, telemetry, bindCalls, submissions,
                   response, k, toolResults, invoked, agentError>>
    /\ UNCHANGED <<messages, finalResponse>>
    /\ UNCHANGED otherThanExec

ExecNext ==
    \/ \E u \in BOOLEAN, c \in BOOLEAN, f \in BOOLEAN, n \in MaxIterationsValues :
           Start(u, c, f, n)
    \/ GetTools
    \/ \E ok \in BOOLEAN, msg \in ModelErrorMessages : Bind(ok, msg)
    \/ \E ok \in BOOLEAN, calls \in ToolCallLists, msg \in ModelErrorMessages :
           FirstResponse(ok, calls, msg)
    \/ ToolSkip
    \/ ToolInvoke
    \/ \E ok \in BOOLEAN, msg \in ErrorMessages : ToolSettles(ok, msg)
    \/ Resubmit
    \/ \E ok \in BOOLEAN, calls \in FinalToolCallLists, msg \in ModelErrorMessages :
           FinalResponse(ok, calls, msg)
    \/ \E ok \in BOOLEAN, msg \in ModelErrorMessages, f \in BOOLEAN :
           FallbackResponse(ok, msg, f)
    \/ Direct
    \/ \E ok \in BOOLEAN, msg \in ModelErrorMessages, f \in BOOLEAN :
           DirectResponse(ok, msg, f)

(***************************************************************************)
(* n8nDefaultFailedAttemptHandler                                          *)
(* (src/nodes/SapAiCoreChatModel/n8nDefaultFailedAttemptHandler.ts)        *)
(***************************************************************************)
\* a status field: absent, a number, or a string that spells a number
NoStatus == [t |-> "undefined", n |-> 0]
NumStatus(n) == [t |-> "number", n |-> n]
StrStatus(n) == [t |-> "string", n |-> n]
StatusNumbers == {0, 399, 429, 500, 503} \cup 400..410
StatusValues ==
    {NoStatus} \cup {NumStatus(n) : n \in StatusNumbers} \cup {StrStatus(404), StrStatus(408)}
\* how the message of the error starts (not a string: no startsWith)
MessageStarts == {"Cancel", "AbortError", "other", "not a string"}
ErrorNames == {"AbortError", "Error"}
ErrorCodes == {"ECONNABORTED", "ETIMEDOUT", Undefined}

AttemptErrors ==
    [message : MessageStarts, name : ErrorNames, code : ErrorCodes,
     responseStatus : StatusValues, status : StatusValues]
NoAttemptError ==
    [message |-> "other", name |-> "Error", code |-> Undefined,
     responseStatus |-> NoStatus, status |-> NoStatus]

\* a variant of the list that also holds 408
STATUS_NO_RETRY_With408 == 400..409

STATUS_NO_RETRY == {400, 401, 402, 403, 404, 405, 406, 407, 409}

\* a ?? b on status fields
Coalesce(a, b) == IF a.t = "undefined" THEN b ELSE a
\* truthiness of a status: 0 and undefined are falsy, every spelled number is truthy
StatusTruthy(st) == (st.t = "number" /\ st.n # 0) \/ st.t = "string"
\* unary plus
ToNumber(st) == st.n

n8nDefaultFailedAttemptHandler(error) ==
    IF \/ error.message = "Cancel"
       \/ error.message = "AbortError"
       \/ error.name = "AbortError"
    THEN "throw"
    ELSE IF error.code = "ECONNABORTED" THEN "throw"
    ELSE LET status == Coalesce(error.responseStatus, error.status) IN
         IF StatusTruthy(status) /\ ToNumber(status) \in STATUS_NO_RETRY
         THEN "throw" ELSE "return"

\* one call of the handler
HandleFailedAttempt ==
    /\ faOutcome = "none"
    /\ faOutcome' = n8nDefaultFailedAttemptHandler(faError)
    /\ UNCHANGED faError
    /\ UNCHANGED otherThanRetry

RetryNext == HandleFailedAttempt

(***************************************************************************)
(* generateSchemaFromExample (src/utils/schemaParsing.ts)                  *)
(***************************************************************************)
\* nesting depth of the example values
ExampleDepth == 3

\* A parsed JSON value: kind is "null", "boolean", "number", "string", "array"
\* or "object"; elems are the elements of an array, entries the key / value
\* pairs of an object in insertion order (Object.entries).
ExVal(kind, elems, entries) == [kind |-> kind, elems |-> elems, entries |-> entries]
ExLeaf(kind) == ExVal(kind, <<>>, <<>>)
ExArr(elems) == ExVal("array", elems, <<>>)
ExObj(entries) == ExVal("object", <<>>, entries)
Entry(key, value) == [key |-> key, value |-> value]
\* an example string jsonParse rejects
InvalidExample == ExLeaf("invalid")
NoExample == ExLeaf("null")

\* the key whose assignment properties[key] = ... goes to the accessor of
\* Object.prototype and creates no own property; JSON.parse does create it
ProtoKey == "__proto__"
OwnProperty(entry) == entry.key # ProtoKey

ExLeaves == {ExLeaf(kd) : kd \in {"null", "boolean", "number", "string"}}

RECURSIVE ExamplesUpTo(_)
ExamplesUpTo(d) ==
    IF d = 0 THEN ExLeaves
    ELSE LET sub == ExamplesUpTo(d - 1)
         IN  ExLeaves
             \cup {ExArr(<<>>), ExObj(<<>>)}
             \cup {ExArr(<<v>>) : v \in sub}
             \cup {ExArr(<<v, ExLeaf("null")>>) : v \in sub}
             \cup {ExObj(<<Entry("a", v)>>) : v \in sub}
             \cup {ExObj(<<Entry("a", v), Entry("b", w)>>) : v \in sub, w \in ExLeaves}
             \cup {ExObj(<<Entry(ProtoKey, w)>>) : w \in ExLeaves}
             \cup {ExObj(<<Entry("a", v), Entry(ProtoKey, w)>>) : v \in sub, w \in ExLeaves}

\* A schema object: has is the set of its members beside type
SchemaOf(type, has, properties, required, items) ==
    [type |-> type, has |-> has, properties |-> properties, required |-> required,
     items |-> items]
TypeSchema(type) == SchemaOf(type, {}, <<>>, <<>>, <<>>)
NoSchemaResult == [status |-> "none", schema |-> TypeSchema("none")]

RECURSIVE generateSchemaFromObject(_)
generateSchemaFromObject(obj) ==
    CASE obj.kind \in {"null", "boolean", "number", "string"} -> TypeSchema(obj.kind)
      [] obj.kind = "array" ->
           SchemaOf("array", {"items"}, <<>>, <<>>,
                    IF Len(obj.elems) > 0 THEN <<generateSchemaFromObject(obj.elems[1])>>
                    ELSE <<TypeSchema("string")>>)
      [] obj.kind = "object" ->
           SchemaOf("object", {"properties", "required"},
                    LET own == SelectSeq(obj.entries, OwnProperty) IN
                    [i \in 1..Len(own) |->
                        [key |-> own[i].key,
                         schema |-> generateSchemaFromObject(own[i].value)]],
                    [i \in 1..Len(obj.entries) |-> obj.entries[i].key],
                    <<>>)
      [] OTHER -> TypeSchema("string")

\* typeof property === "object" && property !== null && "type" in property
isPropertySchema(property) == property.type # "none"

\* Object.keys(schema.properties)
Keys(properties) == [i \in 1..Len(properties) |-> properties[i].key]

RECURSIVE makeAllPropertiesRequired(_)
makeAllPropertiesRequired(schema) ==
    LET s1 == IF schema.type = "object" /\ "properties" \in schema.has
              THEN [schema EXCEPT
                      !.has = IF Len(schema.properties) > 0 THEN @ \cup {"required"} ELSE @,
                      !.required = IF Len(schema.properties) > 0
                                   THEN Keys(schema.properties) ELSE @,
                      !.properties =
                          [i \in 1..Len(schema.properties) |->
                              IF isPropertySchema(schema.properties[i].schema)
                              THEN [schema.properties[i] EXCEPT
                                      !.schema = makeAllPropertiesRequired(@)]
                              ELSE schema.properties[i]]]
              ELSE schema
    IN  IF s1.type = "array" /\ "items" \in s1.has /\ isPropertySchema(s1.items[1])
        THEN [s1 EXCEPT !.items = <<makeAllPropertiesRequired(s1.items[1])>>]
        ELSE s1

\* jsonParse, generateSchemaFromObject and, on request, makeAllPropertiesRequired;
\* an error of the try block is rethrown as a new Error
generateSchemaFromExample(parsedExample, allFieldsRequired) ==
    IF parsedExample = InvalidExample
    THEN [status |-> "throw", schema |-> TypeSchema("none")]
    ELSE LET schema == generateSchemaFromObject(parsedExample) IN
         [status |-> "ok",
          schema |-> IF allFieldsRequired THEN makeAllPropertiesRequired(schema) ELSE schema]

\* one call of generateSchemaFromExample
GenerateSchema ==
    /\ exOut.status = "none"
    /\ exOut' = generateSchemaFromExample(exIn, exFlag)
    /\ UNCHANGED <<exIn, exFlag>>
    /\ UNCHANGED otherThanExample

ExampleNext == GenerateSchema

(***************************************************************************)
(* The entry points up to the construction of the SDK client:              *)
(* SapAiCoreLlm.execute (src/credentials/SapAiCoreApi.credentials.ts),     *)
(* SapAiCoreChatModel.supplyData and SapAiCoreEmbeddings.supplyData        *)
(* (src/unnamed/part_000)                                                  *)
(***************************************************************************)
EntryPoints == {"execute", "chatModel", "embeddings"}

\* an option that options does not hold
Absent == -99
\* temperature and topP are written in tenths (7 is 0.7, 10 is 1)
TemperatureValues == {Absent, 0, 7, 20}
TopPValues == {Absent, 0, 5, 10}
MaxTokensValues == {Absent, 1, 1000, 8000}
OptionSets == [temperature : TemperatureValues, topP : TopPValues, maxTokens : MaxTokensValues]
NoOptions == [temperature |-> Absent, topP |-> Absent, maxTokens |-> Absent]

EntryInputs ==
    [entry : EntryPoints, credentialsOk : BOOLEAN, deploymentIdOk : BOOLEAN,
     options : OptionSets]
NoEntry ==
    [entry |-> "execute", credentialsOk |-> TRUE, deploymentIdOk |-> TRUE,
     options |-> NoOptions]
EpRunning == [kind |-> "running", error |-> <<>>]

\* the steps of an entry point, in the order of its statements
Steps(entry) ==
    CASE entry = "execute" -> <<"userMessage", "validate", "setEnv", "import", "client">>
      [] entry = "chatModel" -> <<"import", "setEnv", "validate", "client">>
      [] entry = "embeddings" -> <<"import", "setEnv", "validate", "deployment", "client">>
AtStep(step) ==
    /\ epPc \in 1..Len(Steps(epIn.entry))
    /\ Steps(epIn.entry)[epPc] = step

IncompleteCredentialsMessage == "Incomplete SAP AI Core credentials"
DeploymentIdRequiredMessage ==
    "Deployment ID is required. Please provide your SAP AI Core embedding deployment ID."
\* messages of the errors the constructor of the SDK client may throw
ClientErrorMessages == {"timeout", "401 Unauthorized", "deployment d1 not found (404)"}

\* errorMessage.includes(word), for the words the catch blocks look for
Includes(msg, word) ==
    word \in CASE msg = ModuleNotFoundMessage -> {"Cannot find module", "@sap-ai-sdk/langchain"}
               [] msg = "401 Unauthorized" -> {"401"}
               [] msg = "deployment d1 not found (404)" -> {"deployment", "404"}
               [] msg = DeploymentIdRequiredMessage -> {"deployment"}
               [] OTHER -> {}

\* Number(x) || d
NumberOr(x, d) == IF x = Absent \/ x = 0 THEN d ELSE x
\* x ?? d
Nullish(x, d) == IF x = Absent THEN d ELSE x

\* the generation parameters handed to the constructor of the client
ClientParams(entry, options) ==
    CASE entry = "execute" ->
           [max_tokens |-> NumberOr(options.maxTokens, 1000),
            temperature |-> NumberOr(options.temperature, 7),
            top_p |-> NumberOr(options.topP, 10)]
      [] entry = "chatModel" ->
           [max_tokens |-> IF options.maxTokens # Absent /\ options.maxTokens > 0
                           THEN options.maxTokens ELSE Absent,
            temperature |-> Nullish(options.temperature, 7),
            top_p |-> Nullish(options.topP, 10)]
      [] OTHER -> [max_tokens |-> Absent, temperature |-> Absent, top_p |-> Absent]

\* the catch block of supplyData: the text of the NodeOperationError it throws
SupplyDataCatch(entry, msg, parts) ==
    IF Includes(msg, "Cannot find module") /\ Includes(msg, "@sap-ai-sdk/langchain")
    THEN <<"SAP AI SDK LangChain package is required">>
    ELSE IF Includes(msg, "authentication") \/ Includes(msg, "401")
    THEN <<"SAP AI Core authentication failed">>
    ELSE IF Includes(msg, "deployment") \/ Includes(msg, "404")
    THEN <<"SAP AI Core deployment not found">>
    ELSE <<IF entry = "chatModel" THEN "Failed to initialize SAP AI Core Chat Model: "
           ELSE "Failed to initialize SAP AI Core Embeddings: ">> \o parts

\* an error of message msg (parts: its text in pieces) is thrown inside the try
\* block of the entry point
Fails(msg, parts, continueOnFail) ==
    /\ epPc' = 0
    /\ epOutcome' =
          IF epIn.entry = "execute"
          THEN LET o == OuterCatch(msg, continueOnFail) IN [kind |-> o.kind, error |-> <<o.error>>]
          ELSE [kind |-> "thrown", error |-> SupplyDataCatch(epIn.entry, msg, parts)]

\* execute: the userMessage check
CheckUserMessage(userMessageOk, continueOnFail) ==
    /\ AtStep("userMessage")
    /\ IF userMessageOk THEN epPc' = epPc + 1 /\ UNCHANGED epOutcome
       ELSE Fails("User message is required", <<"User message is required">>, continueOnFail)
    /\ UNCHANGED <<epIn, envKey, client, epRaised>>
    /\ UNCHANGED otherThanEntry

\* await import('@sap-ai-sdk/langchain')
ImportSdk(ok, continueOnFail) ==
    /\ AtStep("import")
    /\ IF ok THEN epPc' = epPc + 1 /\ UNCHANGED epOutcome
       ELSE Fails(ModuleNotFoundMessage, <<ModuleNotFoundMessage>>, continueOnFail)
    /\ UNCHANGED <<epIn, envKey, client, epRaised>>
    /\ UNCHANGED otherThanEntry

\* process.env.AICORE_SERVICE_KEY = JSON.stringify({ ...credentials })
SetEnv ==
    /\ AtStep("setEnv")
    /\ envKey' = IF epIn.credentialsOk THEN "complete key" ELSE "incomplete key"
    /\ epPc' = epPc + 1
    /\ UNCHANGED <<epIn, client, epRaised, epOutcome>>
    /\ UNCHANGED otherThanEntry

\* the check of clientId, clientSecret, oauthUrl and baseUrl
ValidateCredentials(continueOnFail) ==
    /\ AtStep("validate")
    /\ IF epIn.credentialsOk
       THEN epPc' = epPc + 1 /\ UNCHANGED <<epOutcome, epRaised>>
       ELSE /\ epRaised' = IncompleteCredentialsMessage
            /\ Fails(IncompleteCredentialsMessage, <<IncompleteCredentialsMessage>>,
                     continueOnFail)
    /\ UNCHANGED <<epIn, envKey, client>>
    /\ UNCHANGED otherThanEntry

\* embeddings: the check of deploymentId
ValidateDeploymentId ==
    /\ AtStep("deployment")
    /\ IF epIn.deploymentIdOk
       THEN epPc' = epPc + 1 /\ UNCHANGED <<epOutcome, epRaised>>
       ELSE /\ epRaised' = DeploymentIdRequiredMessage
            /\ Fails(DeploymentIdRequiredMessage, <<DeploymentIdRequiredMessage>>, FALSE)
    /\ UNCHANGED <<epIn, envKey, client>>
    /\ UNCHANGED otherThanEntry

\* new OrchestrationClient / AzureOpenAiChatClient / AzureOpenAiEmbeddingClient;
\* the embeddings entry point rethrows a failure of the constructor with its
\* own text around the message
CreateClient(ok, msg, continueOnFail) ==
    /\ AtStep("client")
    /\ IF ok
       THEN /\ client' = <<ClientParams(epIn.entry, epIn.options)>>
            /\ epPc' = 0
            /\ epOutcome' = [kind |-> "constructed", error |-> <<>>]
       ELSE /\ Fails(msg,
                     IF epIn.entry = "embeddings"
                     THEN <<"Failed to create SAP AI Core embeddings client: ", msg,
                            ". Please check your SAP AI Core credentials and configuration.">>
                     ELSE <<msg>>,
                     continueOnFail)
            /\ UNCHANGED client
    /\ UNCHANGED <<epIn, envKey, epRaised>>
    /\ UNCHANGED otherThanEntry

EntryNext ==
    \/ \E u \in BOOLEAN, f \in BOOLEAN : CheckUserMessage(u, f)
    \/ \E ok \in BOOLEAN, f \in BOOLEAN : ImportSdk(ok, f)
    \/ SetEnv
    \/ \E f \in BOOLEAN : ValidateCredentials(f)
    \/ ValidateDeploymentId
    \/ \E ok \in BOOLEAN, msg \in ClientErrorMessages, f \in BOOLEAN : CreateClient(ok, msg, f)

(***************************************************************************)
(* SapAiCoreLlm.execute: the loop over the input items                     *)
(***************************************************************************)
\* most input items of one execution
MaxItems == 3

\* messages of the errors the processing of an item may throw
ItemErrorMessages ==
    ModelErrorMessages \cup {"User message is required", IncompleteCredentialsMessage}

JsonEntry(item) == [item |-> item, type |-> "json", error |-> ""]
ErrorItemEntry(item, msg) == [item |-> item, type |-> "execution_error", error |-> msg]

\* one pass of the for loop: the item is processed and its result pushed, or
\* the catch block (OuterCatch) pushes an error entry and continues, or throws
ProcessItem(ok, msg) ==
    /\ execOutcome = "running" /\ itI <= itItems
    /\ IF ok
       THEN /\ returnData' = Append(returnData, JsonEntry(itI))
            /\ itI' = itI + 1
            /\ UNCHANGED execOutcome
       ELSE LET o == OuterCatch(msg, itContinue) IN
            IF o.kind = "error_entry"
            THEN /\ returnData' = Append(returnData, ErrorItemEntry(itI, o.error))
                 /\ itI' = itI + 1
                 /\ UNCHANGED execOutcome
            ELSE /\ execOutcome' = "thrown"
                 /\ UNCHANGED <<returnData, itI>>
    /\ UNCHANGED <<itItems, itContinue>>
    /\ UNCHANGED otherThanItems

\* return [returnData]
ReturnItems ==
    /\ execOutcome = "running" /\ itI > itItems
    /\ execOutcome' = "returned"
    /\ UNCHANGED <<itItems, itContinue, itI, returnData>>
    /\ UNCHANGED otherThanItems

ItemsNext ==
    \/ \E ok \in BOOLEAN, msg \in ItemErrorMessages : ProcessItem(ok, msg)
    \/ ReturnItems

(***************************************************************************)
(* Invocations of the entry points that interleave at their await points   *)
(* (src/credentials/SapAiCoreApi.credentials.ts, src/unnamed/part_000)     *)
(***************************************************************************)
\* number of invocations in flight, each with credentials of its own
NumInvocations == 2
Invocations == 1..NumInvocations

IdleInvocation == [entry |-> "execute", at |-> 0, builtUnder |-> 0]
NoInvocations == [i \in Invocations |-> IdleInvocation]

\* The code between two consecutive awaits runs without interruption.  Each
\* stretch is listed with what it does to the key and the client:
\*   execute     ... await getCredentials | check, assign key, await import |
\*               new OrchestrationClient ...
\*   supplyData  await import | await getCredentials |
\*               assign key, check, new Azure...Client
Stretch(setsKey, constructs) == [setsKey |-> setsKey, constructs |-> constructs]
Stretches(entry) ==
    IF entry = "execute"
    THEN <<Stretch(FALSE, FALSE), Stretch(TRUE, FALSE), Stretch(FALSE, TRUE)>>
    ELSE <<Stretch(FALSE, FALSE), Stretch(FALSE, FALSE), Stretch(TRUE, TRUE)>>

\* invocation i runs from its current await to the next one
RunStretch(i) ==
    /\ cInv[i].at \in 1..Len(Stretches(cInv[i].entry))
    /\ LET st == Stretches(cInv[i].entry)[cInv[i].at]
           key == IF st.setsKey THEN i ELSE cEnv
       IN  /\ cEnv' = key
           /\ cInv' = [cInv EXCEPT ![i].at = @ + 1,
                                   ![i].builtUnder = IF st.constructs THEN key ELSE @]
    /\ UNCHANGED otherThanConcurrent

ConcurrentNext == \E i \in Invocations : RunStretch(i)

(***************************************************************************)
(* N8nLlmTracing (src/nodes/SapAiCoreChatModel/N8nLlmTracing.ts)           *)
(***************************************************************************)
\* number of runIds handled by one N8nLlmTracing instance
NumRuns == 2
RunIds == 1..NumRuns

\* text lengths of the joined prompts of a run
PromptLengths == {4, 9}
\* the configured errorDescriptionMapper: the default one, one supplied by the
\* caller, or none (the option overridden with undefined)
Mappers == {"default", "custom", "none"}
TraceInputs == [len : [RunIds -> PromptLengths], yields : BOOLEAN, mapper : Mappers]
NoTraceInput == [len |-> [r \in RunIds |-> 4], yields |-> TRUE, mapper |-> "default"]

IdleRun == [pc |-> "idle", estimatedTokens |-> 0, index |-> -1, threw |-> FALSE]
NoRuns == [r \in RunIds |-> IdleRun]
NoRunsMap == [r \in RunIds |-> -1]

\* the errors handed to handleLLMError: a NodeError or another value, with an
\* own property headers that is absent, an object, or undefined
LlmErrors == [nodeError : BOOLEAN, headers : {"absent", "object", "undefined"}]

\* estimateTokensFromStringList: Math.ceil(text.length / 4)
estimateTokensFromStringList(len) == (len + 3) \div 4

\* Object.keys(this.runsMap).length
RunsMapSize == Cardinality({r \in RunIds : runsMap[r] # -1})

\* a variant that always takes the fallback index
RunDetailsIndex_Fallback(r) == RunsMapSize

\* this.runsMap[runId] ?? { index: Object.keys(this.runsMap).length, ... }
RunDetailsIndex(r) == IF runsMap[r] # -1 THEN runsMap[r] ELSE RunsMapSize

TraceEvent(kind, r, index, promptTokens, payload) ==
    [kind |-> kind, run |-> r, index |-> index, promptTokens |-> promptTokens,
     payload |-> payload]
NoPayload == [cls |-> "none", same |-> FALSE, description |-> "", functionality |-> ""]

\* the error recorded for a NodeError: the same object, its description rewritten
MappedError(mapper) ==
    [cls |-> "NodeError", same |-> TRUE,
     description |-> IF mapper = "custom" THEN "mapped" ELSE "description",
     functionality |-> ""]
\* new NodeOperationError(node, error, { functionality: 'configuration-node' })
WrappedError ==
    [cls |-> "NodeOperationError", same |-> FALSE, description |-> "",
     functionality |-> "configuration-node"]

\* handleLLMStart up to its await: the estimate of the prompts is requested
StartBegins(r) ==
    /\ trRun[r].pc = "idle"
    /\ trRun' = [trRun EXCEPT ![r].pc = "starting",
                              ![r].estimatedTokens = estimateTokensFromStringList(trIn.len[r])]
    /\ UNCHANGED <<trIn, runsMap, promptTokensEstimate, trHost, trEvents>>
    /\ UNCHANGED otherThanTrace

\* handleLLMStart after its await: addInputData, runsMap[runId], promptTokensEstimate
StartCompletes(r) ==
    /\ trRun[r].pc = "starting"
    /\ LET currentIndex == RunsMapSize
           index == IF trIn.yields THEN trHost ELSE currentIndex
       IN  /\ trEvents' = Append(trEvents, TraceEvent("input", r, index,
                                                        trRun[r].estimatedTokens, NoPayload))
           /\ runsMap' = [runsMap EXCEPT ![r] = index]
    /\ trHost' = trHost + 1
    /\ promptTokensEstimate' = trRun[r].estimatedTokens
    /\ trRun' = [trRun EXCEPT ![r].pc = "started"]
    /\ UNCHANGED trIn
    /\ UNCHANGED otherThanTrace

\* handleLLMEnd up to its await: runDetails is read; without generations the
\* handler runs to its end and records the output with promptTokens 0
EndBegins(r, hasGenerations) ==
    /\ trRun[r].pc \in {"idle", "started"}
    /\ IF hasGenerations
       THEN /\ trRun' = [trRun EXCEPT ![r].pc = "ending", ![r].index = RunDetailsIndex(r)]
            /\ UNCHANGED trEvents
       ELSE /\ trRun' = [trRun EXCEPT ![r].pc = "ended", ![r].index = RunDetailsIndex(r)]
            /\ trEvents' = Append(trEvents,
                                  TraceEvent("output", r, RunDetailsIndex(r), 0, NoPayload))
    /\ UNCHANGED <<trIn, runsMap, promptTokensEstimate, trHost>>
    /\ UNCHANGED otherThanTrace

\* handleLLMEnd after its await: tokenUsageEstimate.promptTokens is read from
\* the field, addOutputData records under runDetails.index
EndCompletes(r) ==
    /\ trRun[r].pc = "ending"
    /\ trEvents' = Append(trEvents, TraceEvent("output", r, trRun[r].index,
                                                promptTokensEstimate, NoPayload))
    /\ trRun' = [trRun EXCEPT ![r].pc = "ended"]
    /\ UNCHANGED <<trIn, runsMap, promptTokensEstimate, trHost>>
    /\ UNCHANGED otherThanTrace

\* handleLLMError: Object.keys(error.headers) throws on an own property
\* headers that is undefined; otherwise one error is recorded
handleLLMError(r, error) ==
    /\ trRun[r].pc \in {"idle", "started"}
    /\ IF error.headers = "undefined"
       THEN /\ trRun' = [trRun EXCEPT ![r].pc = "errored", ![r].threw = TRUE,
                                       ![r].index = RunDetailsIndex(r)]
            /\ UNCHANGED trEvents
       ELSE /\ trRun' = [trRun EXCEPT ![r].pc = "errored", ![r].index = RunDetailsIndex(r)]
            /\ trEvents' = Append(trEvents,
                  TraceEvent("error", r, RunDetailsIndex(r), 0,
                             IF error.nodeError THEN MappedError(trIn.mapper)
                             ELSE WrappedError))
    /\ UNCHANGED <<trIn, runsMap, promptTokensEstimate, trHost>>
    /\ UNCHANGED otherThanTrace

TraceNext ==
    \/ \E r \in RunIds : StartBegins(r)
    \/ \E r \in RunIds : StartCompletes(r)
    \/ \E r \in RunIds, g \in BOOLEAN : EndBegins(r, g)
    \/ \E r \in RunIds : EndCompletes(r)
    \/ \E r \in RunIds, error \in LlmErrors : handleLLMError(r, error)

(***************************************************************************)
(* makeN8nLlmFailedAttemptHandler                                          *)
(* (src/nodes/SapAiCoreChatModel/n8nLlmFailedAttemptHandler.ts)            *)
(***************************************************************************)
\* the optional custom handler: not given, returning, or throwing
CustomHandlers == {"absent", "returns", "throws"}
\* error.retriesLeft: not set (Absent) or a count
RetriesLeftValues == {Absent, 0, 1, 2}
AttemptInputs ==
    [error : AttemptErrors, retriesLeft : RetriesLeftValues, handler : CustomHandlers]
NoAttemptInput == [error |-> NoAttemptError, retriesLeft |-> Absent, handler |-> "absent"]

AttemptResult(kind, cls, functionality, cause, ranDefault) ==
    [kind |-> kind, cls |-> cls, functionality |-> functionality, cause |-> cause,
     ranDefault |-> ranDefault]
NoAttemptResult == AttemptResult("none", "", "", "", FALSE)

\* new NodeApiError(ctx.getNode(), cause, { functionality: 'configuration-node' })
NodeApiError(cause, ranDefault) ==
    AttemptResult("throw", "NodeApiError", "configuration-node", cause, ranDefault)

\* a variant that also goes on when no retries are left
RetriesRemain_OrZero(retriesLeft) == retriesLeft # Absent /\ retriesLeft >= 0

\* error?.retriesLeft > 0 (undefined > 0 is false)
RetriesRemain(retriesLeft) == retriesLeft # Absent /\ retriesLeft > 0

\* the function makeN8nLlmFailedAttemptHandler returns, applied to an error
FailedAttemptHandler(in) ==
    IF in.handler = "throws"
    THEN NodeApiError("thrown by handler", FALSE)
    ELSE IF n8nDefaultFailedAttemptHandler(in.error) = "throw"
    THEN NodeApiError("error", TRUE)
    ELSE IF RetriesRemain(in.retriesLeft)
    THEN AttemptResult("return", "", "", "", TRUE)
    ELSE NodeApiError("error", TRUE)

OnFailedAttempt ==
    /\ atOut = NoAttemptResult
    /\ atOut' = FailedAttemptHandler(atIn)
    /\ UNCHANGED atIn
    /\ UNCHANGED otherThanAttempt

AttemptNext == OnFailedAttempt

(***************************************************************************)
(* retryOperation (src/utils/N8nTool.ts)                                   *)
(***************************************************************************)
\* largest whole maxRetries tried
MaxTries == 4
\* maxRetries is a number: the model counts it in halves, from -1 to MaxTries + 0.5
MaxRetriesTwice == (-2)..(2 * MaxTries + 1)

\* lastError: new Error('No attempts made'), or the error of an attempt,
\* wrapped in a new Error when the operation rejected with something else
NoAttempts == [attempt |-> 0, wrapped |-> FALSE]
ErrorOf(attempt, isError) == [attempt |-> attempt, wrapped |-> ~isError]

\* attempt <= maxRetries
LoopGoesOn(attempt, maxTwice) == 2 * attempt <= maxTwice

\* the loop test succeeds: operation() is called
InvokeOperation ==
    /\ roPc = "test" /\ LoopGoesOn(roAttempt, roMax)
    /\ roPc' = "running"
    /\ roLog' = Append(roLog, "invoke")
    /\ UNCHANGED <<roMax, roAttempt, lastError>>
    /\ UNCHANGED otherThanOp

\* the operation resolves: its value is returned
OperationResolves ==
    /\ roPc = "running"
    /\ roPc' = "returned"
    /\ roLog' = Append(roLog, "success")
    /\ UNCHANGED <<roMax, roAttempt, lastError>>
    /\ UNCHANGED otherThanOp

\* the operation rejects: lastError is set; break when attempt === maxRetries,
\* otherwise the delay is awaited
OperationRejects(isError) ==
    /\ roPc = "running"
    /\ lastError' = ErrorOf(roAttempt, isError)
    /\ roLog' = Append(roLog, "fail")
    /\ roPc' = IF 2 * roAttempt = roMax THEN "thrown" ELSE "waiting"
    /\ UNCHANGED <<roMax, roAttempt>>
    /\ UNCHANGED otherThanOp

\* the delay elapses: attempt++
DelayElapses ==
    /\ roPc = "waiting"
    /\ roLog' = Append(roLog, "delay")
    /\ roAttempt' = roAttempt + 1
    /\ roPc' = "test"
    /\ UNCHANGED <<roMax, lastError>>
    /\ UNCHANGED otherThanOp

\* the loop test fails: throw lastError
LoopEnds ==
    /\ roPc = "test" /\ ~LoopGoesOn(roAttempt, roMax)
    /\ roPc' = "thrown"
    /\ UNCHANGED <<roMax, roAttempt, roLog, lastError>>
    /\ UNCHANGED otherThanOp

OpNext ==
    \/ InvokeOperation
    \/ OperationResolves
    \/ \E isError \in BOOLEAN : OperationRejects(isError)
    \/ DelayElapses
    \/ LoopEnds

(***************************************************************************)
(* sanitizeSchema (src/utils/schemaParsing.ts)                             *)
(***************************************************************************)
\* nesting depth of the schemas handed to sanitizeSchema
SanitizeDepth == 2

RefKey == "$ref"
NotSanitized == ExLeaf("none")

\* leaves of a schema value (a member may besides be set to undefined)
SchemaLeaves == {ExLeaf("string"), ExLeaf("null")}

RECURSIVE SchemaValuesUpTo(_)
SchemaValuesUpTo(d) ==
    IF d = 0 THEN SchemaLeaves
    ELSE LET sub == SchemaValuesUpTo(d - 1)
         IN  SchemaLeaves
             \cup {ExArr(<<v>>) : v \in sub}
             \cup {ExObj(<<Entry(key, v)>>) : key \in {"a", RefKey, ProtoKey}, v \in sub}
             \cup {ExObj(<<Entry("a", ExLeaf("undefined"))>>)}
             \cup {ExObj(<<Entry("a", v), Entry(RefKey, w)>>) : v \in sub, w \in SchemaLeaves}
             \cup {ExObj(<<Entry(RefKey, w), Entry("a", v)>>) : v \in sub, w \in SchemaLeaves}

IsDefined(entry) == entry.value.kind # "undefined"

\* JSON.parse(JSON.stringify(schema)): a member that is undefined is left
\* out of its object, an undefined element of an array becomes null
RECURSIVE JsonCopy(_)
JsonCopy(v) ==
    CASE v.kind = "array" ->
           ExArr([i \in 1..Len(v.elems) |->
                    IF v.elems[i].kind = "undefined" THEN ExLeaf("null")
                    ELSE JsonCopy(v.elems[i])])
      [] v.kind = "object" ->
           ExObj(LET kept == SelectSeq(v.entries, IsDefined) IN
                 [i \in 1..Len(kept) |-> Entry(kept[i].key, JsonCopy(kept[i].value))])
      [] OTHER -> v

\* the members removeRefs copies: not $ref, and result[key] = ... creates an
\* own property
CopiedEntry(entry) == entry.key # RefKey /\ OwnProperty(entry)

RECURSIVE removeRefs(_)
removeRefs(obj) ==
    CASE obj.kind = "array" -> ExArr([i \in 1..Len(obj.elems) |-> removeRefs(obj.elems[i])])
      [] obj.kind = "object" ->
           ExObj(LET kept == SelectSeq(obj.entries, CopiedEntry) IN
                 [i \in 1..Len(kept) |-> Entry(kept[i].key, removeRefs(kept[i].value))])
      [] OTHER -> obj

sanitizeSchema(schema) == removeRefs(JsonCopy(schema))

\* one call of sanitizeSchema
Sanitize ==
    /\ saOut = NotSanitized
    /\ saOut' = sanitizeSchema(saIn)
    /\ UNCHANGED saIn
    /\ UNCHANGED otherThanSanitize

SanitizeNext == Sanitize

(***************************************************************************)
(* prepareFallbackToolDescription, getSimplifiedType                       *)
(* (src/utils/schemaParsing.ts)                                            *)
(***************************************************************************)
\* nesting depth of the Zod wrapper types
WrapDepth == 2

\* A property schema: form "zod" has _def with typeName and, for a wrapper,
\* innerType; form "json" has type ("" when the member is missing); form
\* "other" is a value that is no object (true, a string).
ParamSchema(form, type, inner) == [form |-> form, type |-> type, inner |-> inner]
ZodSchema(typeName, inner) == ParamSchema("zod", typeName, inner)
JsonSchema(type) == ParamSchema("json", type, <<>>)
OtherSchema == ParamSchema("other", "", <<>>)

ZodTypeNames == {"ZodObject", "ZodNumber", "ZodBoolean", "ZodArray", "ZodString", "ZodDefault"}
ZodWrappers == {"ZodNullable", "ZodOptional"}
JsonTypes == {"object", "number", "integer", "boolean", "array", "string", "null", ""}
JsonSchemas == {JsonSchema(t) : t \in JsonTypes}

\* Zod schemas nested up to d wrappers; a wrapper may lack its innerType
RECURSIVE ZodSchemasUpTo(_)
ZodSchemasUpTo(d) ==
    IF d = 0 THEN {ZodSchema(t, <<>>) : t \in ZodTypeNames}
    ELSE LET sub == ZodSchemasUpTo(d - 1)
         IN  {ZodSchema(t, <<>>) : t \in ZodTypeNames}
             \cup {ZodSchema(w, <<>>) : w \in ZodWrappers}
             \cup {ZodSchema(w, <<s>>) : w \in ZodWrappers, s \in sub}

ParamSchemas == ZodSchemasUpTo(WrapDepth) \cup JsonSchemas \cup {OtherSchema}

Param(name, schema) == [name |-> name, schema |-> schema]
\* schema.required: the member is missing, or it is an array of names
Required(present, names) == [present |-> present, names |-> names]
NoRequired == Required(FALSE, <<>>)
\* schema.properties in iteration order, and schema.required
FallbackInputs ==
    [properties : {<<>>}
                  \cup {<<Param(n, s)>> : n \in {"a", "b"}, s \in ParamSchemas}
                  \cup {<<Param("a", s), Param("b", t)>> : s \in ParamSchemas, t \in JsonSchemas}
                  \cup {<<Param("b", s), Param("a", t)>> : s \in ParamSchemas, t \in JsonSchemas},
     required : {NoRequired}
                \cup {Required(TRUE, q) : q \in {<<>>, <<"a">>, <<"b">>, <<"b", "a">>, <<"c">>}}]
NoFallbackInput == [properties |-> <<>>, required |-> NoRequired]
NotRendered == <<[name |-> "none", type |-> "", required |-> FALSE]>>

\* a variant that knows no wrapper types
IsWrapper_Never(typeName) == FALSE

\* case 'ZodNullable': case 'ZodOptional':
IsWrapper(typeName) == typeName \in ZodWrappers

RECURSIVE getSimplifiedType(_)
getSimplifiedType(schema) ==
    CASE schema.form = "other" -> "string"
      [] schema.form = "zod" ->
           CASE schema.type = "ZodObject" -> "object"
             [] schema.type = "ZodNumber" -> "number"
             [] schema.type = "ZodBoolean" -> "boolean"
             [] schema.type = "ZodArray" -> "array"
             [] schema.type = "ZodString" -> "string"
             [] IsWrapper(schema.type) ->
                  IF schema.inner = <<>> THEN "string"
                  ELSE getSimplifiedType(schema.inner[1])
             [] OTHER -> "string"
      [] OTHER ->
           CASE schema.type = "object" -> "object"
             [] schema.type \in {"number", "integer"} -> "number"
             [] schema.type = "boolean" -> "boolean"
             [] schema.type = "array" -> "array"
             [] OTHER -> "string"

\* schema.required?.includes(name) ?? false
IsRequired(required, name) ==
    required.present /\ \E i \in 1..Len(required.names) : required.names[i] = name

\* the lines prepareFallbackToolDescription appends, one per entry of
\* Object.entries(schema.properties)
prepareFallbackToolDescription(schema) ==
    [i \in 1..Len(schema.properties) |->
        [name |-> schema.properties[i].name,
         type |-> getSimplifiedType(schema.properties[i].schema),
         required |-> IsRequired(schema.required, schema.properties[i].name)]]

\* one call of prepareFallbackToolDescription
PrepareDescription ==
    /\ fbOut = NotRendered
    /\ fbOut' = prepareFallbackToolDescription(fbIn)
    /\ UNCHANGED fbIn
    /\ UNCHANGED otherThanFallback

FallbackNext == PrepareDescription

vars == <<escText, escHist, schIn, schOut, category, hasAddInputData, runIndex, trace, call,
          raw, messages, finalResponse, pc, discovery, tools, toolErrors, telemetry,
          bindCalls, submissions, response, k, toolResults, invoked, agentError, result, outcome,
          laterVars>>

\* execute is entered for an item; the other groups are not in use
Init ==
    /\ raw \in RawInputs /\ pc = "start"
    /\ messages = <<>> /\ finalResponse = NoResponse
    /\ discovery = NoDiscovery /\ tools = <<>> /\ toolErrors = <<>> /\ telemetry = <<>>
    /\ bindCalls = 0 /\ submissions = <<>> /\ response = NoResponse /\ k = 0
    /\ toolResults = <<>> /\ invoked = <<>> /\ agentError = NoAgentError
    /\ result = NoResult /\ outcome = Running
    /\ escText = <<>> /\ escHist = <<>>
    /\ schIn = Scalar("falsy") /\ schOut = <<>>
    /\ category = "tool" /\ hasAddInputData = FALSE /\ runIndex = NoRunIndex /\ trace = <<>>
    /\ call = [c \in Calls |-> IdleCall]
    /\ faError = NoAttemptError
    /\ faOutcome = "none"
    /\ exIn = NoExample
    /\ exFlag = FALSE
    /\ exOut = NoSchemaResult
    /\ epIn = NoEntry
    /\ epPc = 0
    /\ envKey = "previous"
    /\ client = <<>>
    /\ epRaised = ""
    /\ epOutcome = EpRunning
    /\ itItems = 0
    /\ itContinue = FALSE
    /\ itI = 0
    /\ returnData = <<>>
    /\ execOutcome = "running"
    /\ cInv = NoInvocations
    /\ cEnv = 0
    /\ trIn = NoTraceInput
    /\ trRun = NoRuns
    /\ runsMap = NoRunsMap
    /\ promptTokensEstimate = 0
    /\ trHost = 0
    /\ trEvents = <<>>
    /\ atIn = NoAttemptInput
    /\ atOut = NoAttemptResult
    /\ roMax = 0
    /\ roAttempt = 1
    /\ roPc = "idle"
    /\ roLog = <<>>
    /\ lastError = NoAttempts
    /\ saIn = NoExample
    /\ saOut = NotSanitized
    /\ fbIn = NoFallbackInput
    /\ fbOut = NotRendered

\* logWrapper has wrapped an instance of one category; calls through the proxy
\* are about to be made
InitWrap ==
    /\ category \in Categories /\ hasAddInputData \in BOOLEAN
    /\ runIndex = NoRunIndex /\ trace = <<>>
    /\ call = [c \in Calls |-> IdleCall]
    /\ escText = <<>> /\ escHist = <<>>
    /\ schIn = Scalar("falsy") /\ schOut = <<>>
    /\ raw = NoRaw /\ pc = "idle"
    /\ messages = <<>> /\ finalResponse = NoResponse
    /\ discovery = NoDiscovery /\ tools = <<>> /\ toolErrors = <<>> /\ telemetry = <<>>
    /\ bindCalls = 0 /\ submissions = <<>> /\ response = NoResponse /\ k = 0
    /\ toolResults = <<>> /\ invoked = <<>> /\ agentError = NoAgentError
    /\ result = NoResult /\ outcome = Running
    /\ faError = NoAttemptError
    /\ faOutcome = "none"
    /\ exIn = NoExample
    /\ exFlag = FALSE
    /\ exOut = NoSchemaResult
    /\ epIn = NoEntry
    /\ epPc = 0
    /\ envKey = "previous"
    /\ client = <<>>
    /\ epRaised = ""
    /\ epOutcome = EpRunning
    /\ itItems = 0
    /\ itContinue = FALSE
    /\ itI = 0
    /\ returnData = <<>>
    /\ execOutcome = "running"
    /\ cInv = NoInvocations
    /\ cEnv = 0
    /\ trIn = NoTraceInput
    /\ trRun = NoRuns
    /\ runsMap = NoRunsMap
    /\ promptTokensEstimate = 0
    /\ trHost = 0
    /\ trEvents = <<>>
    /\ atIn = NoAttemptInput
    /\ atOut = NoAttemptResult
    /\ roMax = 0
    /\ roAttempt = 1
    /\ roPc = "idle"
    /\ roLog = <<>>
    /\ lastError = NoAttempts
    /\ saIn = NoExample
    /\ saOut = NotSanitized
    /\ fbIn = NoFallbackInput
    /\ fbOut = NotRendered

\* a schema is about to be simplified
InitSchema ==
    /\ schIn \in SchemasUpTo(SchemaDepth) /\ schOut = <<>>
    /\ escText = <<>> /\ escHist = <<>>
    /\ category = "tool" /\ hasAddInputData = FALSE /\ runIndex = NoRunIndex /\ trace = <<>>
    /\ call = [c \in Calls |-> IdleCall]
    /\ raw = NoRaw /\ pc = "idle"
    /\ messages = <<>> /\ finalResponse = NoResponse
    /\ discovery = NoDiscovery /\ tools = <<>> /\ toolErrors = <<>> /\ telemetry = <<>>
    /\ bindCalls = 0 /\ submissions = <<>> /\ response = NoResponse /\ k = 0
    /\ toolResults = <<>> /\ invoked = <<>> /\ agentError = NoAgentError
    /\ result = NoResult /\ outcome = Running
    /\ faError = NoAttemptError
    /\ faOutcome = "none"
    /\ exIn = NoExample
    /\ exFlag = FALSE
    /\ exOut = NoSchemaResult
    /\ epIn = NoEntry
    /\ epPc = 0
    /\ envKey = "previous"
    /\ client = <<>>
    /\ epRaised = ""
    /\ epOutcome = EpRunning
    /\ itItems = 0
    /\ itContinue = FALSE
    /\ itI = 0
    /\ returnData = <<>>
    /\ execOutcome = "running"
    /\ cInv = NoInvocations
    /\ cEnv = 0
    /\ trIn = NoTraceInput
    /\ trRun = NoRuns
    /\ runsMap = NoRunsMap
    /\ promptTokensEstimate = 0
    /\ trHost = 0
    /\ trEvents = <<>>
    /\ atIn = NoAttemptInput
    /\ atOut = NoAttemptResult
    /\ roMax = 0
    /\ roAttempt = 1
    /\ roPc = "idle"
    /\ roLog = <<>>
    /\ lastError = NoAttempts
    /\ saIn = NoExample
    /\ saOut = NotSanitized
    /\ fbIn = NoFallbackInput
    /\ fbOut = NotRendered

\* a string is about to be escaped
InitEscape ==
    /\ escText \in Texts /\ escHist = <<>>
    /\ schIn = Scalar("falsy") /\ schOut = <<>>
    /\ category = "tool" /\ hasAddInputData = FALSE /\ runIndex = NoRunIndex /\ trace = <<>>
    /\ call = [c \in Calls |-> IdleCall]
    /\ raw = NoRaw /\ pc = "idle"
    /\ messages = <<>> /\ finalResponse = NoResponse
    /\ discovery = NoDiscovery /\ tools = <<>> /\ toolErrors = <<>> /\ telemetry = <<>>
    /\ bindCalls = 0 /\ submissions = <<>> /\ response = NoResponse /\ k = 0
    /\ toolResults = <<>> /\ invoked = <<>> /\ agentError = NoAgentError
    /\ result = NoResult /\ outcome = Running
    /\ faError = NoAttemptError
    /\ faOutcome = "none"
    /\ exIn = NoExample
    /\ exFlag = FALSE
    /\ exOut = NoSchemaResult
    /\ epIn = NoEntry
    /\ epPc = 0
    /\ envKey = "previous"
    /\ client = <<>>
    /\ epRaised = ""
    /\ epOutcome = EpRunning
    /\ itItems = 0
    /\ itContinue = FALSE
    /\ itI = 0
    /\ returnData = <<>>
    /\ execOutcome = "running"
    /\ cInv = NoInvocations
    /\ cEnv = 0
    /\ trIn = NoTraceInput
    /\ trRun = NoRuns
    /\ runsMap = NoRunsMap
    /\ promptTokensEstimate = 0
    /\ trHost = 0
    /\ trEvents = <<>>
    /\ atIn = NoAttemptInput
    /\ atOut = NoAttemptResult
    /\ roMax = 0
    /\ roAttempt = 1
    /\ roPc = "idle"
    /\ roLog = <<>>
    /\ lastError = NoAttempts
    /\ saIn = NoExample
    /\ saOut = NotSanitized
    /\ fbIn = NoFallbackInput
    /\ fbOut = NotRendered

\* an attempt has failed with an error
InitRetry ==
    /\ faError \in AttemptErrors /\ faOutcome = "none"
    /\ escText = <<>> /\ escHist = <<>>
    /\ schIn = Scalar("falsy") /\ schOut = <<>>
    /\ category = "tool" /\ hasAddInputData = FALSE /\ runIndex = NoRunIndex /\ trace = <<>>
    /\ call = [c \in Calls |-> IdleCall]
    /\ raw = NoRaw /\ pc = "idle"
    /\ messages = <<>> /\ finalResponse = NoResponse
    /\ discovery = NoDiscovery /\ tools = <<>> /\ toolErrors = <<>> /\ telemetry = <<>>
    /\ bindCalls = 0 /\ submissions = <<>> /\ response = NoResponse /\ k = 0
    /\ toolResults = <<>> /\ invoked = <<>> /\ agentError = NoAgentError
    /\ result = NoResult /\ outcome = Running
    /\ exIn = NoExample
    /\ exFlag = FALSE
    /\ exOut = NoSchemaResult
    /\ epIn = NoEntry
    /\ epPc = 0
    /\ envKey = "previous"
    /\ client = <<>>
    /\ epRaised = ""
    /\ epOutcome = EpRunning
    /\ itItems = 0
    /\ itContinue = FALSE
    /\ itI = 0
    /\ returnData = <<>>
    /\ execOutcome = "running"
    /\ cInv = NoInvocations
    /\ cEnv = 0
    /\ trIn = NoTraceInput
    /\ trRun = NoRuns
    /\ runsMap = NoRunsMap
    /\ promptTokensEstimate = 0
    /\ trHost = 0
    /\ trEvents = <<>>
    /\ atIn = NoAttemptInput
    /\ atOut = NoAttemptResult
    /\ roMax = 0
    /\ roAttempt = 1
    /\ roPc = "idle"
    /\ roLog = <<>>
    /\ lastError = NoAttempts
    /\ saIn = NoExample
    /\ saOut = NotSanitized
    /\ fbIn = NoFallbackInput
    /\ fbOut = NotRendered

\* an example is about to be turned into a schema
InitExample ==
    /\ exIn \in ExamplesUpTo(ExampleDepth) \cup {InvalidExample}
    /\ exFlag \in BOOLEAN /\ exOut = NoSchemaResult
    /\ faError = NoAttemptError /\ faOutcome = "none"
    /\ escText = <<>> /\ escHist = <<>>
    /\ schIn = Scalar("falsy") /\ schOut = <<>>
    /\ category = "tool" /\ hasAddInputData = FALSE /\ runIndex = NoRunIndex /\ trace = <<>>
    /\ call = [c \in Calls |-> IdleCall]
    /\ raw = NoRaw /\ pc = "idle"
    /\ messages = <<>> /\ finalResponse = NoResponse
    /\ discovery = NoDiscovery /\ tools = <<>> /\ toolErrors = <<>> /\ telemetry = <<>>
    /\ bindCalls = 0 /\ submissions = <<>> /\ response = NoResponse /\ k = 0
    /\ toolResults = <<>> /\ invoked = <<>> /\ agentError = NoAgentError
    /\ result = NoResult /\ outcome = Running
    /\ epIn = NoEntry
    /\ epPc = 0
    /\ envKey = "previous"
    /\ client = <<>>
    /\ epRaised = ""
    /\ epOutcome = EpRunning
    /\ itItems = 0
    /\ itContinue = FALSE
    /\ itI = 0
    /\ returnData = <<>>
    /\ execOutcome = "running"
    /\ cInv = NoInvocations
    /\ cEnv = 0
    /\ trIn = NoTraceInput
    /\ trRun = NoRuns
    /\ runsMap = NoRunsMap
    /\ promptTokensEstimate = 0
    /\ trHost = 0
    /\ trEvents = <<>>
    /\ atIn = NoAttemptInput
    /\ atOut = NoAttemptResult
    /\ roMax = 0
    /\ roAttempt = 1
    /\ roPc = "idle"
    /\ roLog = <<>>
    /\ lastError = NoAttempts
    /\ saIn = NoExample
    /\ saOut = NotSanitized
    /\ fbIn = NoFallbackInput
    /\ fbOut = NotRendered

\* an entry point is entered
InitEntry ==
    /\ epIn \in EntryInputs /\ epPc = 1 /\ envKey = "previous" /\ client = <<>>
    /\ epRaised = "" /\ epOutcome = EpRunning
    /\ itItems = 0 /\ itContinue = FALSE /\ itI = 0 /\ returnData = <<>>
    /\ execOutcome = "running"
    /\ faError = NoAttemptError /\ faOutcome = "none"
    /\ exIn = NoExample /\ exFlag = FALSE /\ exOut = NoSchemaResult
    /\ escText = <<>> /\ escHist = <<>>
    /\ schIn = Scalar("falsy") /\ schOut = <<>>
    /\ category = "tool" /\ hasAddInputData = FALSE /\ runIndex = NoRunIndex /\ trace = <<>>
    /\ call = [c \in Calls |-> IdleCall]
    /\ raw = NoRaw /\ pc = "idle"
    /\ messages = <<>> /\ finalResponse = NoResponse
    /\ discovery = NoDiscovery /\ tools = <<>> /\ toolErrors = <<>> /\ telemetry = <<>>
    /\ bindCalls = 0 /\ submissions = <<>> /\ response = NoResponse /\ k = 0
    /\ toolResults = <<>> /\ invoked = <<>> /\ agentError = NoAgentError
    /\ result = NoResult /\ outcome = Running
    /\ cInv = NoInvocations
    /\ cEnv = 0
    /\ trIn = NoTraceInput
    /\ trRun = NoRuns
    /\ runsMap = NoRunsMap
    /\ promptTokensEstimate = 0
    /\ trHost = 0
    /\ trEvents = <<>>
    /\ atIn = NoAttemptInput
    /\ atOut = NoAttemptResult
    /\ roMax = 0
    /\ roAttempt = 1
    /\ roPc = "idle"
    /\ roLog = <<>>
    /\ lastError = NoAttempts
    /\ saIn = NoExample
    /\ saOut = NotSanitized
    /\ fbIn = NoFallbackInput
    /\ fbOut = NotRendered

\* execute is entered with its input items
InitItems ==
    /\ itItems \in 1..MaxItems /\ itContinue \in BOOLEAN /\ itI = 1 /\ returnData = <<>>
    /\ execOutcome = "running"
    /\ epIn = NoEntry /\ epPc = 0 /\ envKey = "previous" /\ client = <<>>
    /\ epRaised = "" /\ epOutcome = EpRunning
    /\ faError = NoAttemptError /\ faOutcome = "none"
    /\ exIn = NoExample /\ exFlag = FALSE /\ exOut = NoSchemaResult
    /\ escText = <<>> /\ escHist = <<>>
    /\ schIn = Scalar("falsy") /\ schOut = <<>>
    /\ category = "tool" /\ hasAddInputData = FALSE /\ runIndex = NoRunIndex /\ trace = <<>>
    /\ call = [c \in Calls |-> IdleCall]
    /\ raw = NoRaw /\ pc = "idle"
    /\ messages = <<>> /\ finalResponse = NoResponse
    /\ discovery = NoDiscovery /\ tools = <<>> /\ toolErrors = <<>> /\ telemetry = <<>>
    /\ bindCalls = 0 /\ submissions = <<>> /\ response = NoResponse /\ k = 0
    /\ toolResults = <<>> /\ invoked = <<>> /\ agentError = NoAgentError
    /\ result = NoResult /\ outcome = Running
    /\ cInv = NoInvocations
    /\ cEnv = 0
    /\ trIn = NoTraceInput
    /\ trRun = NoRuns
    /\ runsMap = NoRunsMap
    /\ promptTokensEstimate = 0
    /\ trHost = 0
    /\ trEvents = <<>>
    /\ atIn = NoAttemptInput
    /\ atOut = NoAttemptResult
    /\ roMax = 0
    /\ roAttempt = 1
    /\ roPc = "idle"
    /\ roLog = <<>>
    /\ lastError = NoAttempts
    /\ saIn = NoExample
    /\ saOut = NotSanitized
    /\ fbIn = NoFallbackInput
    /\ fbOut = NotRendered

\* the invocations have been entered, each through one of the entry points
InitConcurrent ==
    /\ cInv \in [Invocations -> [entry : EntryPoints, at : {1}, builtUnder : {0}]]
    /\ cEnv = 0
    /\ faError = NoAttemptError /\ faOutcome = "none"
    /\ escText = <<>> /\ escHist = <<>>
    /\ schIn = Scalar("falsy") /\ schOut = <<>>
    /\ category = "tool" /\ hasAddInputData = FALSE /\ runIndex = NoRunIndex /\ trace = <<>>
    /\ call = [c \in Calls |-> IdleCall]
    /\ raw = NoRaw /\ pc = "idle"
    /\ messages = <<>> /\ finalResponse = NoResponse
    /\ discovery = NoDiscovery /\ tools = <<>> /\ toolErrors = <<>> /\ telemetry = <<>>
    /\ bindCalls = 0 /\ submissions = <<>> /\ response = NoResponse /\ k = 0
    /\ toolResults = <<>> /\ invoked = <<>> /\ agentError = NoAgentError
    /\ result = NoResult /\ outcome = Running
    /\ exIn = NoExample
    /\ exFlag = FALSE
    /\ exOut = NoSchemaResult
    /\ epIn = NoEntry
    /\ epPc = 0
    /\ envKey = "previous"
    /\ client = <<>>
    /\ epRaised = ""
    /\ epOutcome = EpRunning
    /\ itItems = 0
    /\ itContinue = FALSE
    /\ itI = 0
    /\ returnData = <<>>
    /\ execOutcome = "running"
    /\ trIn = NoTraceInput
    /\ trRun = NoRuns
    /\ runsMap = NoRunsMap
    /\ promptTokensEstimate = 0
    /\ trHost = 0
    /\ trEvents = <<>>
    /\ atIn = NoAttemptInput
    /\ atOut = NoAttemptResult
    /\ roMax = 0
    /\ roAttempt = 1
    /\ roPc = "idle"
    /\ roLog = <<>>
    /\ lastError = NoAttempts
    /\ saIn = NoExample
    /\ saOut = NotSanitized
    /\ fbIn = NoFallbackInput
    /\ fbOut = NotRendered

SpecConcurrent == InitConcurrent /\ [][ConcurrentNext]_vars
\* an N8nLlmTracing instance has been constructed
InitTrace ==
    /\ trIn \in TraceInputs /\ trRun = NoRuns /\ runsMap = NoRunsMap
    /\ promptTokensEstimate = 0 /\ trHost = 0 /\ trEvents = <<>>
    /\ faError = NoAttemptError /\ faOutcome = "none"
    /\ escText = <<>> /\ escHist = <<>>
    /\ schIn = Scalar("falsy") /\ schOut = <<>>
    /\ category = "tool" /\ hasAddInputData = FALSE /\ runIndex = NoRunIndex /\ trace = <<>>
    /\ call = [c \in Calls |-> IdleCall]
    /\ raw = NoRaw /\ pc = "idle"
    /\ messages = <<>> /\ finalResponse = NoResponse
    /\ discovery = NoDiscovery /\ tools = <<>> /\ toolErrors = <<>> /\ telemetry = <<>>
    /\ bindCalls = 0 /\ submissions = <<>> /\ response = NoResponse /\ k = 0
    /\ toolResults = <<>> /\ invoked = <<>> /\ agentError = NoAgentError
    /\ result = NoResult /\ outcome = Running
    /\ exIn = NoExample
    /\ exFlag = FALSE
    /\ exOut = NoSchemaResult
    /\ epIn = NoEntry
    /\ epPc = 0
    /\ envKey = "previous"
    /\ client = <<>>
    /\ epRaised = ""
    /\ epOutcome = EpRunning
    /\ itItems = 0
    /\ itContinue = FALSE
    /\ itI = 0
    /\ returnData = <<>>
    /\ execOutcome = "running"
    /\ cInv = NoInvocations
    /\ cEnv = 0
    /\ atIn = NoAttemptInput
    /\ atOut = NoAttemptResult
    /\ roMax = 0
    /\ roAttempt = 1
    /\ roPc = "idle"
    /\ roLog = <<>>
    /\ lastError = NoAttempts
    /\ saIn = NoExample
    /\ saOut = NotSanitized
    /\ fbIn = NoFallbackInput
    /\ fbOut = NotRendered

SpecTrace == InitTrace /\ [][TraceNext]_vars
\* a handler has been made and an attempt has failed
InitAttempt ==
    /\ atIn \in AttemptInputs /\ atOut = NoAttemptResult
    /\ faError = NoAttemptError /\ faOutcome = "none"
    /\ escText = <<>> /\ escHist = <<>>
    /\ schIn = Scalar("falsy") /\ schOut = <<>>
    /\ category = "tool" /\ hasAddInputData = FALSE /\ runIndex = NoRunIndex /\ trace = <<>>
    /\ call = [c \in Calls |-> IdleCall]
    /\ raw = NoRaw /\ pc = "idle"
    /\ messages = <<>> /\ finalResponse = NoResponse
    /\ discovery = NoDiscovery /\ tools = <<>> /\ toolErrors = <<>> /\ telemetry = <<>>
    /\ bindCalls = 0 /\ submissions = <<>> /\ response = NoResponse /\ k = 0
    /\ toolResults = <<>> /\ invoked = <<>> /\ agentError = NoAgentError
    /\ result = NoResult /\ outcome = Running
    /\ exIn = NoExample
    /\ exFlag = FALSE
    /\ exOut = NoSchemaResult
    /\ epIn = NoEntry
    /\ epPc = 0
    /\ envKey = "previous"
    /\ client = <<>>
    /\ epRaised = ""
    /\ epOutcome = EpRunning
    /\ itItems = 0
    /\ itContinue = FALSE
    /\ itI = 0
    /\ returnData = <<>>
    /\ execOutcome = "running"
    /\ cInv = NoInvocations
    /\ cEnv = 0
    /\ trIn = NoTraceInput
    /\ trRun = NoRuns
    /\ runsMap = NoRunsMap
    /\ promptTokensEstimate = 0
    /\ trHost = 0
    /\ trEvents = <<>>
    /\ roMax = 0
    /\ roAttempt = 1
    /\ roPc = "idle"
    /\ roLog = <<>>
    /\ lastError = NoAttempts
    /\ saIn = NoExample
    /\ saOut = NotSanitized
    /\ fbIn = NoFallbackInput
    /\ fbOut = NotRendered

SpecAttempt == InitAttempt /\ [][AttemptNext]_vars
\* retryOperation has been called
InitOp ==
    /\ roMax \in MaxRetriesTwice /\ roAttempt = 1 /\ roPc = "test" /\ roLog = <<>>
    /\ lastError = NoAttempts
    /\ faError = NoAttemptError /\ faOutcome = "none"
    /\ escText = <<>> /\ escHist = <<>>
    /\ schIn = Scalar("falsy") /\ schOut = <<>>
    /\ category = "tool" /\ hasAddInputData = FALSE /\ runIndex = NoRunIndex /\ trace = <<>>
    /\ call = [c \in Calls |-> IdleCall]
    /\ raw = NoRaw /\ pc = "idle"
    /\ messages = <<>> /\ finalResponse = NoResponse
    /\ discovery = NoDiscovery /\ tools = <<>> /\ toolErrors = <<>> /\ telemetry = <<>>
    /\ bindCalls = 0 /\ submissions = <<>> /\ response = NoResponse /\ k = 0
    /\ toolResults = <<>> /\ invoked = <<>> /\ agentError = NoAgentError
    /\ result = NoResult /\ outcome = Running
    /\ exIn = NoExample
    /\ exFlag = FALSE
    /\ exOut = NoSchemaResult
    /\ epIn = NoEntry
    /\ epPc = 0
    /\ envKey = "previous"
    /\ client = <<>>
    /\ epRaised = ""
    /\ epOutcome = EpRunning
    /\ itItems = 0
    /\ itContinue = FALSE
    /\ itI = 0
    /\ returnData = <<>>
    /\ execOutcome = "running"
    /\ cInv = NoInvocations
    /\ cEnv = 0
    /\ trIn = NoTraceInput
    /\ trRun = NoRuns
    /\ runsMap = NoRunsMap
    /\ promptTokensEstimate = 0
    /\ trHost = 0
    /\ trEvents = <<>>
    /\ atIn = NoAttemptInput
    /\ atOut = NoAttemptResult
    /\ saIn = NoExample
    /\ saOut = NotSanitized
    /\ fbIn = NoFallbackInput
    /\ fbOut = NotRendered

SpecOp == InitOp /\ [][OpNext]_vars
\* a schema has been handed to sanitizeSchema
InitSanitize ==
    /\ saIn \in SchemaValuesUpTo(SanitizeDepth) /\ saOut = NotSanitized
    /\ faError = NoAttemptError /\ faOutcome = "none"
    /\ escText = <<>> /\ escHist = <<>>
    /\ schIn = Scalar("falsy") /\ schOut = <<>>
    /\ category = "tool" /\ hasAddInputData = FALSE /\ runIndex = NoRunIndex /\ trace = <<>>
    /\ call = [c \in Calls |-> IdleCall]
    /\ raw = NoRaw /\ pc = "idle"
    /\ messages = <<>> /\ finalResponse = NoResponse
    /\ discovery = NoDiscovery /\ tools = <<>> /\ toolErrors = <<>> /\ telemetry = <<>>
    /\ bindCalls = 0 /\ submissions = <<>> /\ response = NoResponse /\ k = 0
    /\ toolResults = <<>> /\ invoked = <<>> /\ agentError = NoAgentError
    /\ result = NoResult /\ outcome = Running
    /\ exIn = NoExample
    /\ exFlag = FALSE
    /\ exOut = NoSchemaResult
    /\ epIn = NoEntry
    /\ epPc = 0
    /\ envKey = "previous"
    /\ client = <<>>
    /\ epRaised = ""
    /\ epOutcome = EpRunning
    /\ itItems = 0
    /\ itContinue = FALSE
    /\ itI = 0
    /\ returnData = <<>>
    /\ execOutcome = "running"
    /\ cInv = NoInvocations
    /\ cEnv = 0
    /\ trIn = NoTraceInput
    /\ trRun = NoRuns
    /\ runsMap = NoRunsMap
    /\ promptTokensEstimate = 0
    /\ trHost = 0
    /\ trEvents = <<>>
    /\ atIn = NoAttemptInput
    /\ atOut = NoAttemptResult
    /\ roMax = 0
    /\ roAttempt = 1
    /\ roPc = "idle"
    /\ roLog = <<>>
    /\ lastError = NoAttempts
    /\ fbIn = NoFallbackInput
    /\ fbOut = NotRendered

SpecSanitize == InitSanitize /\ [][SanitizeNext]_vars
\* a schema has been handed to prepareFallbackToolDescription
InitFallback ==
    /\ fbIn \in FallbackInputs /\ fbOut = NotRendered
    /\ faError = NoAttemptError /\ faOutcome = "none"
    /\ escText = <<>> /\ escHist = <<>>
    /\ schIn = Scalar("falsy") /\ schOut = <<>>
    /\ category = "tool" /\ hasAddInputData = FALSE /\ runIndex = NoRunIndex /\ trace = <<>>
    /\ call = [c \in Calls |-> IdleCall]
    /\ raw = NoRaw /\ pc = "idle"
    /\ messages = <<>> /\ finalResponse = NoResponse
    /\ discovery = NoDiscovery /\ tools = <<>> /\ toolErrors = <<>> /\ telemetry = <<>>
    /\ bindCalls = 0 /\ submissions = <<>> /\ response = NoResponse /\ k = 0
    /\ toolResults = <<>> /\ invoked = <<>> /\ agentError = NoAgentError
    /\ result = NoResult /\ outcome = Running
    /\ exIn = NoExample
    /\ exFlag = FALSE
    /\ exOut = NoSchemaResult
    /\ epIn = NoEntry
    /\ epPc = 0
    /\ envKey = "previous"
    /\ client = <<>>
    /\ epRaised = ""
    /\ epOutcome = EpRunning
    /\ itItems = 0
    /\ itContinue = FALSE
    /\ itI = 0
    /\ returnData = <<>>
    /\ execOutcome = "running"
    /\ cInv = NoInvocations
    /\ cEnv = 0
    /\ trIn = NoTraceInput
    /\ trRun = NoRuns
    /\ runsMap = NoRunsMap
    /\ promptTokensEstimate = 0
    /\ trHost = 0
    /\ trEvents = <<>>
    /\ atIn = NoAttemptInput
    /\ atOut = NoAttemptResult
    /\ roMax = 0
    /\ roAttempt = 1
    /\ roPc = "idle"
    /\ roLog = <<>>
    /\ lastError = NoAttempts
    /\ saIn = NoExample
    /\ saOut = NotSanitized

SpecFallback == InitFallback /\ [][FallbackNext]_vars
SpecItems == InitItems /\ [][ItemsNext]_vars
SpecEntry == InitEntry /\ [][EntryNext]_vars
SpecExample == InitExample /\ [][ExampleNext]_vars
SpecRetry == InitRetry /\ [][RetryNext]_vars
SpecEscape == InitEscape /\ [][EscNext]_vars
SpecSchema == InitSchema /\ [][SchNext]_vars
SpecWrap == InitWrap /\ [][WrapNext]_vars
Spec == Init /\ [][ExecNext]_vars

\* ---- properties of getConnectedTools and SapAiCoreLlm.execute ----

\* the candidates after the expansion of toolkits
Candidates == FlatMap(raw.items, 1)
Ids(ts) == [i \in 1..Len(ts) |-> ts[i].id]

HasValidName(t) == t.kind = "object" /\ t.nameT = "string" /\ t.name # ""
HasMember(t) == t.func # "absent" \/ t.call # "absent" \/ t.ucall # "absent"
Acceptable(t) == HasValidName(t) /\ HasMember(t)

\* two entries of the candidate sequence carry the name n
Duplicated(n) ==
    \E i, j \in 1..Len(Candidates) :
        /\ i < j
        /\ HasValidName(Candidates[i]) /\ Candidates[i].name = n
        /\ HasValidName(Candidates[j]) /\ Candidates[j].name = n
HasDuplicate == \E n \in {"a", "b", "c"} : Duplicated(n)

Discovered == discovery.status # "none"

\* C1: when two entries of the tool sequence have the same name,
\* getConnectedTools(enforceUniqueNames = true) throws a NodeOperationError that
\* names a duplicated name and returns no tools, not even those before the
\* duplicate.
C1_DuplicateFailsDiscovery ==
    (Discovered /\ HasDuplicate) =>
        /\ discovery.status = "throw"
        /\ discovery.error.cls = "NodeOperationError"
        /\ discovery.error.text = DuplicateNameText
        /\ Duplicated(discovery.error.name)
        /\ discovery.tools = <<>>
        /\ tools = <<>>

\* a toolkit brought tools a and b, both named validly, before a second a
C1_Witness ==
    /\ Discovered /\ discovery.status = "throw"
    /\ raw.items = <<ToolkitAB, Single(ToolA)>>
    /\ Names(Candidates) = <<"a", "b", "a">>
    /\ \A i \in 1..3 : HasValidName(Candidates[i])

\* C2: a candidate that is no object, has no non-empty string name or has none
\* of func, call, _call is left out of the tool set of the run without failing
\* discovery or the run; every other candidate is kept, in discovery order,
\* unless two candidates share a name.
C2_InvalidToolsFiltered ==
    (Discovered /\ raw.shape \in {"single", "array"} /\ ~HasDuplicate) =>
        /\ discovery.status = "ok"
        /\ Ids(tools) = Ids(SelectSeq(Candidates, Acceptable))
        /\ outcome.kind \in {"thrown", "error_entry"} => submissions # <<>>

\* null, a valid tool and a tool without callable member were connected; the
\* run kept the valid one only and returned
C2_Witness ==
    /\ raw.items = <<Single(NullTool), ToolkitAB>>
    /\ Ids(Candidates) = <<NullTool.id, ToolA.id, ToolBNoCallable.id>>
    /\ tools = <<ToolA>>
    /\ toolErrors # <<>>
    /\ outcome.kind = "returned"

Threw(s) == s.state = "threw"
ErrorEntry(tr) == tr.hasError
\* the loop over the directives of the first response has ended
LoopOver ==
    /\ response.tool_calls # <<>>
    /\ pc \in {"awaitFinal", "awaitFallback", "end"}
    /\ agentError.at \notin {"bindTools", "invoke"}
AllDirectivesNameTools ==
    \A i \in 1..Len(response.tool_calls) :
        \E j \in 1..Len(tools) : tools[j].name = response.tool_calls[i].name

\* C3: in a round whose N directives all name tools of the tool set and in
\* which exactly one invocation throws, every tool is still invoked,
\* toolResults gets exactly N entries of which exactly one carries an error,
\* the extended conversation is resubmitted, and the answer of the
\* resubmission is returned with those N entries as intermediateSteps.
C3_PerToolIsolation ==
    (LoopOver /\ AllDirectivesNameTools /\ Len(SelectSeq(invoked, Threw)) = 1) =>
        LET n == Len(response.tool_calls) IN
        /\ Len(invoked) = n
        /\ \A i \in 1..n : invoked[i].id = response.tool_calls[i].id
        /\ Len(toolResults) = n
        /\ \A i \in 1..n : /\ toolResults[i].tool_call_id = response.tool_calls[i].id
                             /\ toolResults[i].hasError = (invoked[i].state = "threw")
        /\ Len(SelectSeq(toolResults, ErrorEntry)) = 1
        /\ Len(submissions) >= 2 /\ submissions[2].endpoint = "bound"
        /\ Len(submissions[2].messages) = 3 + n
        /\ (outcome.kind = "returned" /\ agentError.at = "none") =>
              /\ result.executionType = "sap_ai_core_with_tools"
              /\ result.output = "answer2"
              /\ result.intermediateSteps = toolResults

\* the first of two invocations threw, the second one returned, and the run
\* returned the answer of the resubmission
C3_Witness ==
    /\ outcome.kind = "returned" /\ result.executionType = "sap_ai_core_with_tools"
    /\ Len(invoked) = 2
    /\ invoked[1].state = "threw" /\ invoked[2].state = "returned"
    /\ Len(result.intermediateSteps) = 2

\* C4 as stated: when bindTools or the first invoke throws, the run returns the
\* direct_llm_fallback result with toolsUsed = 0 and an error text, and no
\* exception leaves it.
C4_FallbackNeverThrows ==
    (pc = "end" /\ agentError.at \in {"bindTools", "invoke"}) =>
        /\ outcome.kind = "returned"
        /\ result.executionType = "direct_llm_fallback"
        /\ result.toolsUsed = 0
        /\ result.error # <<>>

\* C4 (amended): when bindTools or the first invoke throws, the original
\* conversation is submitted once to the unbound client; if that submission
\* succeeds the run returns the direct_llm_fallback result with toolsUsed = 0,
\* no intermediate steps and the error text of the failure; if it throws as
\* well, the run produces no result and the error goes to the catch block of
\* the item (rethrown, or an error entry under continueOnFail).
C4_FallbackUnlessItFails ==
    (pc = "end" /\ agentError.at \in {"bindTools", "invoke"}) =>
        /\ submissions[Len(submissions)] = [endpoint |-> "unbound", messages |-> BaseMessages]
        /\ Len(submissions) = IF agentError.at = "bindTools" THEN 1 ELSE 2
        /\ \/ /\ outcome.kind = "returned"
              /\ result.executionType = "direct_llm_fallback"
              /\ result.toolsUsed = 0
              /\ result.intermediateSteps = <<>>
              /\ result.error = <<"Tool execution failed: ", agentError.msg>>
           \/ /\ outcome.kind \in {"thrown", "error_entry"}
              /\ result = NoResult

\* the first invoke of the bound endpoint threw over a set of two tools and
\* the fallback answered
C4_Witness ==
    /\ pc = "end" /\ agentError.at = "invoke" /\ Len(tools) = 2
    /\ outcome.kind = "returned" /\ result.executionType = "direct_llm_fallback"

\* C5: with an empty validated tool set the run never calls bindTools, submits
\* the conversation once, to the unbound client, and its result is the direct
\* one (executionType sap_ai_core_direct) with toolsUsed = 0 and no
\* intermediate steps.
C5_EmptyToolSetDirect ==
    (Discovered /\ tools = <<>>) =>
        /\ bindCalls = 0
        /\ pc \in {"direct", "awaitDirect", "end"}
        /\ submissions = IF pc = "direct" THEN <<>>
                         ELSE <<[endpoint |-> "unbound", messages |-> BaseMessages]>>
        /\ outcome.kind = "returned" =>
              /\ result.executionType = "sap_ai_core_direct"
              /\ result.toolsUsed = 0
              /\ result.intermediateSteps = <<>>
              /\ result.output = "answer0"

\* candidates were connected but none passed validation, and the run returned
C5_Witness ==
    /\ raw.items = <<Single(NullTool), Single(ToolBNoCallable)>>
    /\ Discovered /\ tools = <<>>
    /\ outcome.kind = "returned" /\ result.executionType = "sap_ai_core_direct"

\* the extended conversation has been submitted to the tool-bound endpoint
Resubmitted == Len(submissions) >= 2 /\ submissions[2].endpoint = "bound"
Resubmission == submissions[2].messages
IsAssistant(m) == m.role = "assistant"
IsToolMessage(m) == m.role = "tool"
IsBound(sub) == sub.endpoint = "bound"
\* the directives carried by the assistant turn, and the tool-role messages
Directives == SelectSeq(Resubmission, IsAssistant)[1].tool_calls
ToolMessages == SelectSeq(Resubmission, IsToolMessage)
Answers(id) == {j \in 1..Len(ToolMessages) : ToolMessages[j].tool_call_id = id}
Asked(id) == {i \in 1..Len(Directives) : Directives[i].id = id}
NamesTool(d) == \E j \in 1..Len(tools) : tools[j].name = d.name
InvocationsOf(id) == {i \in 1..Len(invoked) : invoked[i].id = id}
ResultsOf(id) == {i \in 1..Len(toolResults) : toolResults[i].tool_call_id = id}

\* C14 as stated: in the resubmitted conversation every directive of the
\* assistant turn has exactly one tool-role message with its tool_call_id, and
\* every tool-role message answers exactly one directive.
C14_PairedOneToOne ==
    Resubmitted =>
        /\ \A i \in 1..Len(Directives) : Cardinality(Answers(Directives[i].id)) = 1
        /\ \A j \in 1..Len(ToolMessages) :
              Cardinality(Asked(ToolMessages[j].tool_call_id)) = 1

\* C14 (amended): in the resubmitted conversation, whose directives carry
\* distinct ids, every tool-role message answers exactly one directive, every
\* directive that names a tool of the tool set has exactly one tool-role
\* message with its tool_call_id, and a directive that names no tool of the
\* tool set has none.
C14_PairedWhereToolKnown ==
    Resubmitted =>
        /\ \A i \in 1..Len(Directives) :
              Cardinality(Answers(Directives[i].id)) =
                  IF NamesTool(Directives[i]) THEN 1 ELSE 0
        /\ \A j \in 1..Len(ToolMessages) :
              Cardinality(Asked(ToolMessages[j].tool_call_id)) = 1

\* two directives that name tools were answered, each by the one tool-role
\* message that carries its id
C14_Witness ==
    /\ Resubmitted /\ Len(Directives) = 2
    /\ \A i \in 1..2 : NamesTool(Directives[i])
    /\ Len(ToolMessages) = 2
    /\ ToolMessages[1].tool_call_id = Directives[1].id
    /\ ToolMessages[2].tool_call_id = Directives[2].id

\* C15: for a directive that names no tool of the tool set nothing is recorded
\* (no result, no error, no entry of toolErrors) and no tool is invoked; every
\* other directive of the round is invoked once; the conversation is
\* resubmitted and the answer of the resubmission is returned as a
\* sap_ai_core_with_tools result.
C15_AbsentToolSkipped ==
    LoopOver =>
        /\ \A i \in 1..Len(response.tool_calls) :
              LET d == response.tool_calls[i] IN
              IF NamesTool(d)
              THEN Cardinality(InvocationsOf(d.id)) = 1 /\ Cardinality(ResultsOf(d.id)) = 1
              ELSE InvocationsOf(d.id) = {} /\ ResultsOf(d.id) = {}
        /\ Resubmitted
        /\ Len(Resubmission) = 3 + Len(toolResults)
        /\ agentError.at = "none" => toolErrors = FilterErrors(discovery.tools, 1)
        /\ (outcome.kind = "returned" /\ agentError.at = "none") =>
              /\ result.executionType = "sap_ai_core_with_tools"
              /\ result.intermediateSteps = toolResults

\* the first directive named no connected tool, the second one did: one result
\* was recorded and the run returned the answer of the resubmission
C15_Witness ==
    /\ Len(response.tool_calls) = 2
    /\ response.tool_calls[1].name = "z" /\ NamesTool(response.tool_calls[2])
    /\ Len(invoked) = 1 /\ invoked[1].id = 2 /\ Len(toolResults) = 1
    /\ outcome.kind = "returned" /\ result.executionType = "sap_ai_core_with_tools"

\* C16: at most one tool invocation is pending, and it is the latest one; the
\* invocations are made in the order of their directives; toolResults holds
\* the entries of the settled invocations in that same order.
C16_SequentialInOrder ==
    /\ \A i \in 1..Len(invoked) :
          invoked[i].state = "pending" => (i = Len(invoked) /\ pc = "awaitTool")
    /\ \A i, j \in 1..Len(invoked) : i < j => invoked[i].id < invoked[j].id
    /\ Len(toolResults) = Len(invoked) - (IF pc = "awaitTool" THEN 1 ELSE 0)
    /\ \A i \in 1..Len(toolResults) :
          /\ toolResults[i].tool_call_id = invoked[i].id
          /\ toolResults[i].tool_name = invoked[i].name
          /\ toolResults[i].hasError = (invoked[i].state = "threw")

\* the second invocation is pending after the first one threw and was recorded
C16_Witness ==
    /\ pc = "awaitTool" /\ Len(invoked) = 2
    /\ invoked[1].state = "threw" /\ invoked[2].state = "pending"
    /\ Len(toolResults) = 1 /\ toolResults[1].tool_call_id = 1

\* C17: the sequence resubmitted to the model is the sequence submitted first
\* (system, user), unchanged, followed by the assistant turn with the
\* directives of the first response and one tool-role message per entry of
\* toolResults, in order; the messages array itself keeps its two messages.
C17_AppendOnly ==
    /\ messages # <<>> => messages = BaseMessages
    /\ Resubmitted =>
          /\ submissions[1].messages = BaseMessages
          /\ Len(Resubmission) = 3 + Len(toolResults)
          /\ SubSeq(Resubmission, 1, 2) = submissions[1].messages
          /\ Resubmission[3] = Msg("assistant", <<response.content>>, 0, response.tool_calls)
          /\ \A i \in 1..Len(toolResults) :
                /\ Resubmission[3 + i].role = "tool"
                /\ Resubmission[3 + i].tool_call_id = toolResults[i].tool_call_id

\* a conversation extended by the assistant turn and two tool messages was
\* resubmitted
C17_Witness ==
    /\ Resubmitted /\ Len(toolResults) = 2 /\ Len(Resubmission) = 5
    /\ messages = BaseMessages

\* C18: in the resubmitted conversation the entry of an invocation that threw
\* is rendered "Error: <message>", whatever was thrown, and the entry of an
\* invocation that returned is rendered as the JSON serialization of its output.
C18_ErrorsRenderedAsErrors ==
    Resubmitted =>
        \A i \in 1..Len(toolResults) :
            ToolMessages[i].content =
                IF invoked[i].state = "threw" THEN <<"Error: ", toolResults[i].error>>
                ELSE <<JsonStringify(toolResults[i].result)>>

\* C19: the tool-bound endpoint is submitted to at most twice; the result of
\* the tool path carries the content of the second response; once that response
\* is in, the run has ended, also when the response carries directives and
\* whatever maxIterations is, so that every directive of the first response is
\* invoked at most once and no directive of the second response ever is.
C19_TwoPhases ==
    /\ Len(SelectSeq(submissions, IsBound)) <= 2
    /\ \A i \in 1..Len(response.tool_calls) :
          Cardinality(InvocationsOf(response.tool_calls[i].id)) <= 1
    /\ Len(invoked) <= Len(response.tool_calls)
    /\ finalResponse # NoResponse =>
          /\ pc = "end" /\ outcome.kind = "returned"
          /\ Len(submissions) = 2
          /\ result.executionType = "sap_ai_core_with_tools"
          /\ result.output = finalResponse.content
          /\ \A i \in 1..Len(invoked) : invoked[i].state # "pending"

\* the second response carried a directive for a connected tool and the run
\* ended after the one invocation of the first round
C19_Witness ==
    /\ finalResponse.tool_calls # <<>> /\ NamesTool(finalResponse.tool_calls[1])
    /\ pc = "end" /\ Len(invoked) = 1

\* ---- properties of logWrapper ----

\* C34: whenever a run that invoked at least one tool returns a result, the
\* intermediateSteps of that result hold one record per invocation, in order,
\* on every path, the fallback after a failed resubmission included.
C34_StepsAccountForInvocations ==
    (outcome.kind = "returned" /\ invoked # <<>>) =>
        /\ Len(result.intermediateSteps) = Len(invoked)
        /\ \A i \in 1..Len(invoked) :
              result.intermediateSteps[i].tool_call_id = invoked[i].id

\* the positions of the tool set that carry the name n
Matches(n) == {i \in 1..Len(tools) : tools[i].name = n}

\* C22: in every run the tool set handed to bindTools and searched for the
\* directives holds only tools with a non-empty string name and a callable
\* member, and no two of them share a name: a lookup by name matches at most
\* one tool, and bindTools is called with a non-empty set only.
C22_ToolSetWellFormed ==
    /\ \A i \in 1..Len(tools) : Acceptable(tools[i])
    /\ \A i, j \in 1..Len(tools) : tools[i].name = tools[j].name => i = j
    /\ \A n \in DirectiveNames : Cardinality(Matches(n)) <= 1
    /\ bindCalls > 0 => tools # <<>>
    /\ \A i \in 1..Len(invoked) : Matches(invoked[i].name) # {}

\* two tools of different names were bound and one of them was looked up and
\* invoked
C22_Witness ==
    /\ bindCalls = 1 /\ Names(tools) = <<"a", "b">>
    /\ Names(Candidates) = <<"a", "b">>
    /\ invoked # <<>> /\ invoked[1].name = "b"

\* C23: when the connected tools of an item contain a duplicate name, execute
\* does not submit the conversation to the model and does not end the item
\* with a normal result.
C23_DuplicateIsHardFailure ==
    (Discovered /\ HasDuplicate) =>
        /\ submissions = <<>>
        /\ outcome.kind # "returned"

\* C24: a call of getConnectedTools hands exactly one event to logAiEvent:
\* 'tools-connected' with the names of the tools when it returns (also when it
\* returns no tool), one event with the error message when it throws.
C24_OneEventPerDiscovery ==
    Discovered =>
        /\ Len(telemetry) = 1
        /\ discovery.status = "ok" =>
              telemetry[1] = AiEvent("tools-connected", Names(discovery.tools), "")
        /\ discovery.status = "throw" => telemetry[1].error # ""


Done(c) == call[c].pc = "done"
Returned(c) == Done(c) /\ call[c].thrown = NoError
Failed(c) == Done(c) /\ call[c].thrown # NoError

C7_ErrorsNormalized ==
    \A c \in Calls :
        Failed(c) =>
            /\ call[c].thrown.cls = "NodeOperationError"
            /\ call[c].thrown.message # GenericMessage
            /\ call[c].thrown.description = call[c].thrown.message

\* C8: the input event is recorded, and has yielded its index, before the
\* delegate is invoked; the output or error event of a call is recorded only
\* after its delegate has settled, under the index and connection type of that
\* call's own input event.  Without addInputData nothing is recorded at all.
C8_StrictOrdering ==
    /\ \A j \in 1..Len(trace) :
          /\ (trace[j].kind = "invoke" /\ hasAddInputData) =>
                \E i \in 1..(j - 1) :
                    /\ trace[i].kind = "input" /\ trace[i].call = trace[j].call
                    /\ call[trace[j].call].index = trace[i].index
          /\ trace[j].kind \in {"output", "error"} =>
                /\ \E i \in 1..(j - 1) :
                      /\ trace[i].kind = "input" /\ trace[i].call = trace[j].call
                      /\ trace[i].index = trace[j].index
                      /\ trace[i].conn = trace[j].conn
                /\ \E i \in 1..(j - 1) :
                      /\ trace[i].kind = "settle" /\ trace[i].call = trace[j].call
                      /\ \E h \in 1..(i - 1) :
                            trace[h].kind = "invoke" /\ trace[h].call = trace[j].call
    /\ ~hasAddInputData =>
          \A j \in 1..Len(trace) : trace[j].kind \notin {"input", "output", "error"}

\* two calls on one connection type overlap: the first call's output (or error)
\* event is recorded under index 0 after the second call took index 1
C8_Witness ==
    \E j \in 1..Len(trace), i \in 1..Len(trace) :
        /\ i < j
        /\ trace[j].kind \in {"output", "error"} /\ trace[j].index = 0
        /\ trace[i].kind = "input" /\ trace[i].index = 1
        /\ trace[i].conn = trace[j].conn /\ trace[i].call # trace[j].call

\* the sink events (input, output, error) recorded for call c
SinkEvents(c) ==
    {j \in 1..Len(trace) : trace[j].call = c /\ trace[j].kind \in {"input", "output", "error"}}
OutputEvents(c) == {j \in 1..Len(trace) : trace[j].call = c /\ trace[j].kind = "output"}
InputEvents(t) == {j \in 1..Len(trace) : trace[j].conn = t /\ trace[j].kind = "input"}
Intercepted(c) == call[c].got = "wrapper"

\* C11: for every catalogued category the delegate operation is invoked with
\* the original capability object as its receiver, not the proxy and not null.
C11_ReceiverIsTarget ==
    \A j \in 1..Len(trace) : trace[j].kind = "invoke" => trace[j].payload = "target"

\* C12: every successful intercepted call, of every category, has recorded
\* exactly one output event and emitted exactly one telemetry event.
C12_OneOutputOneTelemetry ==
    \A c \in Calls :
        (Intercepted(c) /\ Returned(c)) =>
            /\ Cardinality(OutputEvents(c)) = 1
            /\ call[c].aiEvents = 1

C20_SinkFailureTolerated ==
    \A c \in Calls : Done(c) => call[c].thrown # SinkError

\* the output and error events recorded for call c under index i
ClosingEvents(c, i) ==
    {j \in 1..Len(trace) :
        trace[j].call = c /\ trace[j].kind \in {"output", "error"} /\ trace[j].index = i}

\* C30: every intercepted call that recorded an input event under index i has,
\* when it returns or throws to its caller, recorded exactly one closing event
\* under index i: the output event or the error event, never both, never none.
C30_EveryCallClosed ==
    \A c \in Calls :
        (Done(c) /\ Intercepted(c) /\ call[c].index # -1) =>
            Cardinality(ClosingEvents(c, call[c].index)) = 1

\* ---- properties of the entry points ----

\* C25: a configuration error raised by an entry point (incomplete
\* credentials, missing deployment ID) reaches the caller with its own message:
\* not the text of another error class, not behind a wrapper prefix.
C25_ConfigErrorsVerbatim ==
    epRaised # "" => epOutcome.error = <<epRaised>>

\* C26: in every entry point incomplete credentials are reported before any
\* external effect: AICORE_SERVICE_KEY is unchanged and no client was
\* constructed.
C26_ValidatedBeforeEffects ==
    epRaised = IncompleteCredentialsMessage =>
        /\ envKey = "previous"
        /\ client = <<>>

\* C27: every supplied temperature, topP and maxTokens reaches the client
\* unchanged, the boundary value 0 included; a default (0.7, 1, 1000) is used
\* only for an option that is absent.
C27_DefaultsOnlyWhenMissing ==
    (client # <<>> /\ epIn.entry \in {"execute", "chatModel"}) =>
        /\ epIn.options.temperature # Absent =>
              client[1].temperature = epIn.options.temperature
        /\ epIn.options.topP # Absent => client[1].top_p = epIn.options.topP
        /\ epIn.options.maxTokens # Absent => client[1].max_tokens = epIn.options.maxTokens

\* ---- properties of the loop over the items ----

\* C28: with continueOnFail a failure of any item, whatever its cause, is
\* recorded as one error entry paired to the item and the loop goes on:
\* execute does not throw and returns one entry per input item, in input order.
C28_ContinueOnFail ==
    itContinue =>
        /\ execOutcome # "thrown"
        /\ execOutcome = "returned" =>
              /\ Len(returnData) = itItems
              /\ \A j \in 1..Len(returnData) : returnData[j].item = j

\* ---- properties of interleaved invocations ----

\* C36: whenever an invocation constructs its SDK client, AICORE_SERVICE_KEY
\* holds the service key built from the credentials of that same invocation,
\* for every interleaving of the invocations at their await points.
C36_KeyOfOwnCredentials ==
    \A i \in Invocations : cInv[i].builtUnder # 0 => cInv[i].builtUnder = i

\* ---- properties of N8nLlmTracing ----

\* the events of the given kinds recorded for run r
EventsOf(r, kinds) == {j \in 1..Len(trEvents) : trEvents[j].run = r /\ trEvents[j].kind \in kinds}

\* C31: handleLLMError records exactly one error event, at the index of the
\* run, and does not throw; for a NodeError the recorded error is that same
\* error with its description rewritten by the configured mapper, for any
\* other error a new NodeOperationError tagged configuration-node.
C31_ErrorRecordedOnce ==
    \A r \in RunIds :
        trRun[r].pc = "errored" =>
            /\ ~trRun[r].threw
            /\ Cardinality(EventsOf(r, {"error"})) = 1
            /\ \A j \in EventsOf(r, {"error"}) :
                  /\ trEvents[j].index = trRun[r].index
                  /\ trEvents[j].payload \in {MappedError(trIn.mapper), WrappedError}

\* C32: the output or error event of a run whose handleLLMStart has completed
\* is recorded at exactly the index that handleLLMStart stored for the run,
\* which is the index of the run's input event (the index addInputData
\* yielded, when it yields one), for every interleaving of the handlers.
C32_StartEndCorrelated ==
    \A j \in 1..Len(trEvents) :
        (trEvents[j].kind \in {"output", "error"} /\ runsMap[trEvents[j].run] # -1) =>
            /\ trEvents[j].index = runsMap[trEvents[j].run]
            /\ \E i \in 1..(j - 1) :
                  /\ trEvents[i].kind = "input" /\ trEvents[i].run = trEvents[j].run
                  /\ trEvents[i].index = trEvents[j].index

\* run 1 ended after run 2 had started: its output is under its own index 0
C32_Witness ==
    /\ Len(trEvents) = 3
    /\ trEvents[1].kind = "input" /\ trEvents[1].run = 1 /\ trEvents[1].index = 0
    /\ trEvents[2].kind = "input" /\ trEvents[2].run = 2 /\ trEvents[2].index = 1
    /\ trEvents[3].kind = "output" /\ trEvents[3].run = 1 /\ trEvents[3].index = 0

\* C35: the promptTokens of the estimate recorded for a run with generations
\* is the estimate computed from that run's own prompts at its handleLLMStart,
\* whatever other run started in between.
C35_OwnPromptEstimate ==
    \A j \in 1..Len(trEvents) :
        (/\ trEvents[j].kind = "output"
         /\ runsMap[trEvents[j].run] # -1
         /\ trRun[trEvents[j].run].pc = "ended"
         /\ trEvents[j].promptTokens # 0) =>
            trEvents[j].promptTokens = estimateTokensFromStringList(trIn.len[trEvents[j].run])

\* ---- properties of makeN8nLlmFailedAttemptHandler ----

\* C37: the made handler returns normally exactly when the custom handler
\* does not throw, the default classification does not throw and
\* error.retriesLeft > 0; in every other case it throws a NodeApiError tagged
\* configuration-node, never a raw error; the default classification runs
\* only after the custom handler has returned.
C37_ReturnsIffRetriesLeft ==
    atOut # NoAttemptResult =>
        /\ (atOut.kind = "return") <=>
              (/\ atIn.handler # "throws"
               /\ n8nDefaultFailedAttemptHandler(atIn.error) = "return"
               /\ atIn.retriesLeft # Absent /\ atIn.retriesLeft > 0)
        /\ atOut.kind # "return" =>
              /\ atOut.kind = "throw" /\ atOut.cls = "NodeApiError"
              /\ atOut.functionality = "configuration-node"
        /\ atIn.handler = "throws" => ~atOut.ranDefault

\* a retryable error with no retries left is thrown as a NodeApiError
C37_Witness ==
    /\ atOut.kind = "throw" /\ atOut.cls = "NodeApiError"
    /\ atIn.handler = "returns" /\ atIn.retriesLeft = 0
    /\ n8nDefaultFailedAttemptHandler(atIn.error) = "return"

\* ---- properties of retryOperation ----

Invocations_ro == {j \in 1..Len(roLog) : roLog[j] = "invoke"}

\* C38: the operation is invoked at most maxRetries times and nothing follows
\* a success; after the failures retryOperation throws the error of the last
\* attempt; a delay is awaited only between two attempts, never after the
\* final failed attempt; with maxRetries <= 0 the operation is never invoked
\* and the error thrown is 'No attempts made'.
C38_BoundedAttempts ==
    /\ 2 * Cardinality(Invocations_ro) <= IF roMax > 0 THEN roMax ELSE 0
    /\ \A j \in 1..Len(roLog) : roLog[j] = "success" => j = Len(roLog)
    /\ roPc = "thrown" =>
          /\ lastError.attempt = Cardinality(Invocations_ro)
          /\ roLog # <<>> => roLog[Len(roLog)] = "fail"
          /\ roMax <= 0 => (roLog = <<>> /\ lastError = NoAttempts)

\* ---- properties of sanitizeSchema ----

NotRef(entry) == entry.key # RefKey

\* the value with its $ref members left out and everything else kept
RECURSIVE WithoutRefs(_)
WithoutRefs(v) ==
    CASE v.kind = "array" -> ExArr([i \in 1..Len(v.elems) |-> WithoutRefs(v.elems[i])])
      [] v.kind = "object" ->
           ExObj(LET kept == SelectSeq(v.entries, NotRef) IN
                 [i \in 1..Len(kept) |-> Entry(kept[i].key, WithoutRefs(kept[i].value))])
      [] OTHER -> v

\* C39: sanitizeSchema returns its input schema without the $ref members, at
\* every depth, inside objects and inside arrays, and with every other key and
\* value kept.
C39_OnlyRefsRemoved ==
    saOut # NotSanitized => saOut = WithoutRefs(saIn)

\* ---- properties of prepareFallbackToolDescription ----

SimplifiedTypes == {"object", "number", "boolean", "array", "string"}

\* the type the claim gives a property schema that is no wrapper
PlainType(schema) ==
    CASE schema.form = "zod" /\ schema.type \in ZodTypeNames \ {"ZodDefault"} ->
           [ZodObject |-> "object", ZodNumber |-> "number", ZodBoolean |-> "boolean",
            ZodArray |-> "array", ZodString |-> "string"][schema.type]
      [] schema.form = "json" /\ schema.type \in {"object", "number", "boolean", "array"} ->
           schema.type
      [] schema.form = "json" /\ schema.type = "integer" -> "number"
      [] OTHER -> "string"

\* the schema inside the wrappers around it
RECURSIVE Unwrapped(_)
Unwrapped(schema) ==
    IF schema.form = "zod" /\ schema.type \in ZodWrappers /\ schema.inner # <<>>
    THEN Unwrapped(schema.inner[1])
    ELSE schema

RECURSIVE AllRequired(_)
AllRequired(s) ==
    /\ s.type = "object" =>
          /\ "required" \in s.has
          /\ s.required = Keys(s.properties)
          /\ \A i \in 1..Len(s.properties) : AllRequired(s.properties[i].schema)
    /\ s.type = "array" => AllRequired(s.items[1])

\* C29: for every parsed example value the schema that
\* generateSchemaFromExample returns with allFieldsRequired = true lists, in
\* every object node at every depth, object nodes under array items included,
\* exactly that node's property names as required.
C29_AllFieldsRequired ==
    (exOut.status = "ok" /\ exFlag) => AllRequired(exOut.schema)

\* ---- properties of n8nDefaultFailedAttemptHandler ----

IsCancellation(e) ==
    e.message \in {"Cancel", "AbortError"} \/ e.name = "AbortError" \/ e.code = "ECONNABORTED"
\* the status the error carries: that of its response when it has one, else its
\* own; -1 when it carries none
CarriedStatus(e) ==
    IF e.responseStatus # NoStatus THEN e.responseStatus.n
    ELSE IF e.status # NoStatus THEN e.status.n
    ELSE -1

\* C21: the handler rethrows exactly when the error is a cancellation (message
\* starting with Cancel or AbortError, name AbortError, code ECONNABORTED) or
\* carries one of the statuses 400..407, 409; for every other error (408, 429,
\* 5xx, no status) it returns.
C21_FailureClassification ==
    faOutcome # "none" =>
        (faOutcome = "throw") <=>
            (IsCancellation(faError) \/ CarriedStatus(faError) \in (400..407) \cup {409})

\* an error that is no cancellation and carries status 408 came back as retryable
C21_Witness ==
    /\ faOutcome = "return"
    /\ ~IsCancellation(faError)
    /\ faError.responseStatus = NumStatus(408)

\* ---- properties of simplifySchemaForSapAiCore ----

\* some node of the tree, at any depth, carries one of the keywords K
RECURSIVE HasKeyword(_, _)
HasKeyword(n, K) ==
    \/ n.kw \cap K # {}
    \/ \E i \in 1..Len(n.props) : HasKeyword(n.props[i].schema, K)
    \/ \E i \in 1..Len(n.items) : HasKeyword(n.items[i], K)
    \/ \E i \in 1..Len(n.extra) : HasKeyword(n.extra[i], K)

\* C9: the output of simplifySchemaForSapAiCore contains none of $ref, allOf,
\* anyOf, oneOf, not, $schema, $id, definitions at any depth.
C9_StrippingTotal ==
    schOut # <<>> => ~HasKeyword(schOut[1], UnsupportedKeywords)

\* ---- properties of escapeSingleCurlyBrackets ----

\* length of the maximal run of s[i] that starts at i
RECURSIVE RunLen(_, _)
RunLen(s, i) ==
    IF i < Len(s) /\ s[i + 1] = s[i] THEN 1 + RunLen(s, i + 1) ELSE 1

\* every maximal run of braces of s has at most n braces
BraceRunsAtMost(s, n) ==
    \A i \in 1..Len(s) :
        (s[i] # Other /\ (i = 1 \/ s[i - 1] # s[i])) => RunLen(s, i) <= n

\* the run-by-run reading of the doc comment: a lone brace becomes a pair,
\* a pair stays a pair, any other character is copied
RECURSIVE DoubleSingles(_, _)
DoubleSingles(s, i) ==
    IF i > Len(s) THEN <<>>
    ELSE IF s[i] = Other THEN <<s[i]>> \o DoubleSingles(s, i + 1)
    ELSE LET n == RunLen(s, i)
         IN  (IF n = 1 THEN Rep(s[i], 2) ELSE Rep(s[i], n))
                 \o DoubleSingles(s, i + n)

\* C10: escapeSingleCurlyBrackets doubles every lone '{' and '}' exactly once,
\* leaves an already doubled pair alone, and a second application returns the
\* result of the first.
C10_EscapeIdempotent ==
    /\ (Len(escHist) >= 1 /\ BraceRunsAtMost(escText, 2))
           => escHist[1] = DoubleSingles(escText, 1)
    /\ Len(escHist) >= 2 => escHist[2] = escHist[1]

\* a string mixing a lone brace and a doubled pair has been escaped twice
C10_Witness ==
    /\ Len(escHist) = 2
    /\ escText = <<Open, Other, Close, Close>>
    /\ escHist[1] = <<Open, Open, Other, Close, Close>>

====
